---- MODULE Spec2Model ----
(***************************************************************************)
(* The bipsi gameplay runtime (src/src/scripts/player.js): the project     *)
(* data (rooms, events, fields), the locator and field accessors, the      *)
(* collision rule, bipsi.Player (move, touch, showError, start, restart),  *)
(* the standard touch pipeline and the script capability table.            *)
(*                                                                         *)
(* Events are JavaScript objects; an object is named here by a reference   *)
(* <<age, id>>: age 0 is an object of the project data now loaded, age k   *)
(* an object of the data that was replaced k restarts ago and that some    *)
(* suspended call still holds.  Asynchronous calls are tasks: a stack of   *)
(* frames, the head being the innermost call.  A task that is "run" is on  *)
(* the microtask queue; input callbacks (move, proceed, timers) run only   *)
(* when that queue is empty.                                               *)
(*                                                                         *)
(* SpecSays is the play session of a project with one talking event, with  *)
(* the lines its touches show kept in log.                                 *)
(* Spec is the play session: load, input and the asynchronous calls.       *)
(* SpecFrames adds the per-frame update(dt), which only advances the time  *)
(* accumulator, the frame counter and the reveal of the page on screen.    *)
(***************************************************************************)
EXTENDS Integers, Sequences, FiniteSets, TLC

VARIABLES
    rooms,          \* data.rooms: room index -> [events: sequence of references]
    events,         \* the event objects: reference -> event record
    stateBackup,    \* this.stateBackup: the snapshot taken at load
    avatarId,       \* this.avatarId (0: not set yet)
    ready,          \* this.ready
    busy,           \* this.busy
    error,          \* this.error
    dialoguePlayer, \* this.dialoguePlayer: [pages, revealed]
    tasks,          \* the asynchronous calls in flight: slot -> task
    time,           \* this.time, in milliseconds
    frameCount,     \* this.frameCount
    log,            \* [on, lines]: the say lines shown so far, kept when on
    loaded,         \* loadBundle has been called
    lastCall        \* the move call just made and what it decided, if the last step was one

vars == <<rooms, events, stateBackup, avatarId, ready, busy, error,
          dialoguePlayer, tasks, time, frameCount, log, loaded, lastCall>>

----------------------------------------------------------------------------
(* Bounds of the model. *)

MaxStep == 1      \* move(dx, dy) is called with |dx| + |dy| <= MaxStep
MaxTasks == 3     \* asynchronous calls in flight at once
MaxDepth == 3     \* frames on one task's stack
MaxPages == 2     \* pages waiting in the dialogue box
MaxAge == 1       \* restarts a suspended call's objects live through
MaxFrames == 2    \* animation frames counted
MaxSays == 2      \* say lines of the talking event
MaxTouches == 5   \* say lines kept in log
MaxEvents == 3    \* event ids the editor hands out
MaxFields == 3    \* fields of the event whose fields are replaced

(* The room grid is 16 x 16 cells. *)
GridSize == 16

(* The length of an animation frame, in milliseconds: player.js 229. *)
FrameMs == 400

(* The frame times update is called with. *)
Dts == {200, 400, 600}

Cells == 0..(GridSize - 1)

----------------------------------------------------------------------------
(* Field data.  Every field's data has one shape, so that any two field    *)
(* lists can be compared: a text (tags hold "true") and a location.        *)

NoLocation == [room |-> 0, position |-> <<0, 0>>]

Text(s) == [text |-> s, location |-> NoLocation]

Location(r, x, y) == [text |-> "", location |-> [room |-> r, position |-> <<x, y>>]]

Field(k, t, d) == [key |-> k, type |-> t, data |-> d]

Tag(k) == Field(k, "tag", Text("true"))

Say(s) == Field("say", "dialogue", Text(s))

NoRef == <<0, 0>>

Undefined == "undefined"

----------------------------------------------------------------------------
(* Sequence helpers. *)

Range(seq) == {seq[i] : i \in DOMAIN seq}

IndexOf(seq, v) ==
    IF v \in Range(seq) THEN CHOOSE i \in DOMAIN seq : seq[i] = v /\ \A j \in 1..(i-1) : seq[j] # v
    ELSE 0

(* arrayDiscard(array, value): removes the first occurrence of value. *)
arrayDiscard(array, value) ==
    LET i == IndexOf(array, value)
    IN IF i = 0 THEN array
       ELSE SubSeq(array, 1, i - 1) \o SubSeq(array, i + 1, Len(array))

----------------------------------------------------------------------------
(* Field accessors: player.js 8-41. *)

FieldMatches(field, name, type) ==
    field.key = name /\ field.type = (IF type = Undefined THEN field.type ELSE type)

allFields(event, name, type) ==
    SelectSeq(event.fields, LAMBDA field : FieldMatches(field, name, type))

hasField(event, name, type) == allFields(event, name, type) # <<>>

(* undefined, where a field is expected. *)
NoField == [key |-> Undefined, type |-> Undefined, data |-> [text |-> Undefined, location |-> NoLocation]]

oneField(event, name, type) ==
    LET found == {i \in DOMAIN event.fields : FieldMatches(event.fields[i], name, type)}
    IN IF found = {} THEN NoField
       ELSE event.fields[CHOOSE i \in found : \A j \in found : i <= j]

(* eventIsTagged requiring the tag to hold true. *)
eventIsTagged_TrueOnly(event, key) ==
    oneField(event, key, "tag") # NoField /\ oneField(event, key, "tag").data.text = "true"

eventIsTagged(event, key) == oneField(event, key, "tag") # NoField

----------------------------------------------------------------------------
(* The world: the player's mutable state as one record w, so that the      *)
(* helpers below are functions from world to world.  w.exc is the pending  *)
(* exception of the call being executed ("" when none); w.ok is FALSE when *)
(* the step would exceed a bound of the model; w.touched is the event the  *)
(* move call being executed chose to touch; w.said is the say lines the    *)
(* step has shown.                                                         *)

World == [rooms |-> rooms, events |-> events, stateBackup |-> stateBackup,
          avatarId |-> avatarId, ready |-> ready, busy |-> busy, error |-> error,
          dialoguePlayer |-> dialoguePlayer, tasks |-> tasks,
          exc |-> "", ok |-> TRUE, touched |-> NoRef, said |-> <<>>]

RoomIds(w) == DOMAIN w.rooms

NoRoom == 0 - 1

(* room.wallmap[y][x]: room 0 is open in its top-left 3 x 2 cells, room 1  *)
(* in its bottom-right 2 x 2 cells; every other cell is a wall.            *)
wallmap ==
    [room \in {0, 1} |-> [y \in Cells |-> [x \in Cells |->
        IF room = 0 THEN (IF x <= 2 /\ y <= 1 THEN 0 ELSE 1)
        ELSE (IF x >= GridSize - 2 /\ y >= GridSize - 2 THEN 0 ELSE 1)]]]

(* getEventsAt(events, x, y, ignore): the events of the list at (x, y),    *)
(* in list order, without `ignore`.                                        *)
getEventsAt(w, list, x, y, ignore) ==
    SelectSeq(list, LAMBDA e : w.events[e].position = <<x, y>> /\ e # ignore)

(* allEvents(data): player.js 46-48. *)
RECURSIVE FlatMap(_, _, _)
FlatMap(w, r, n) ==
    IF r >= n THEN <<>> ELSE w.rooms[r].events \o FlatMap(w, r + 1, n)

allEvents(w) == FlatMap(w, 0, Cardinality(RoomIds(w)))

(* getEventById(data, id): the first event of the data with that id. *)
getEventById(w, id) ==
    LET found == SelectSeq(allEvents(w), LAMBDA e : w.events[e].id = id)
    IN IF found = <<>> THEN NoRef ELSE found[1]

(* roomFromEvent(data, event): player.js 54-56; NoRoom is undefined. *)
roomFromEvent(w, event) ==
    LET holding == {r \in RoomIds(w) : event \in Range(w.rooms[r].events)}
    IN IF holding = {} THEN NoRoom
       ELSE CHOOSE r \in holding : \A q \in holding : r <= q

(* cellIsSolid taking any solid field for a tag. *)
cellIsSolid_AnySolidField(w, room, x, y) ==
    LET wall == wallmap[room][y][x] > 0
        solid == \E e \in Range(getEventsAt(w, w.rooms[room].events, x, y, NoRef)) :
                    hasField(w.events[e], "solid", Undefined)
    IN solid \/ wall

(* cellIsSolid(room, x, y): player.js 17-21. *)
cellIsSolid(w, room, x, y) ==
    LET wall == wallmap[room][y][x] > 0
        solid == \E e \in Range(getEventsAt(w, w.rooms[room].events, x, y, NoRef)) :
                    eventIsTagged(w.events[e], "solid")
    IN solid \/ wall

(* getEventAtLocation returning the topmost event of the cell. *)
getEventAtLocation_Topmost(w, location) ==
    LET found == getEventsAt(w, w.rooms[location.room].events,
                             location.position[1], location.position[2], NoRef)
    IN IF found = <<>> THEN NoRef ELSE found[Len(found)]

(* getEventAtLocation(data, location): player.js 63-68. *)
getEventAtLocation(w, location) ==
    LET found == getEventsAt(w, w.rooms[location.room].events,
                             location.position[1], location.position[2], NoRef)
    IN IF found = <<>> THEN NoRef ELSE found[1]

(* getLocationOfEvent(data, event): player.js 75-79. *)
getLocationOfEvent(w, event) ==
    [room |-> roomFromEvent(w, event), position |-> w.events[event].position]

(* removeEvent(data, event): player.js 97-100.  prevRoom.events of an      *)
(* event that is in no room is a TypeError.                                *)
removeEvent(w, event) ==
    LET prevRoom == roomFromEvent(w, event)
    IN IF w.exc # "" THEN w
       ELSE IF event = NoRef \/ prevRoom = NoRoom THEN [w EXCEPT !.exc = "TypeError"]
       ELSE [w EXCEPT !.rooms[prevRoom].events = arrayDiscard(@, event)]

(* moveEvent without its removeEvent: the event is pushed and stays where  *)
(* it was.                                                                 *)
moveEvent_NoRemove(w, event, location) ==
    IF event = NoRef \/ roomFromEvent(w, event) = NoRoom \/ location.room \notin RoomIds(w)
    THEN [w EXCEPT !.exc = "TypeError"]
    ELSE [w EXCEPT !.rooms[location.room].events = Append(@, event),
                   !.events[event].position = location.position]

(* moveEvent leaving an event of the destination room at its place in the  *)
(* collection.                                                             *)
moveEvent_KeepsPlace(w, event, location) ==
    IF event = NoRef \/ roomFromEvent(w, event) = NoRoom \/ location.room \notin RoomIds(w)
    THEN [w EXCEPT !.exc = "TypeError"]
    ELSE IF roomFromEvent(w, event) = location.room
    THEN [w EXCEPT !.events[event].position = location.position]
    ELSE [w EXCEPT !.rooms[roomFromEvent(w, event)].events = arrayDiscard(@, event),
                   !.rooms[location.room].events = Append(@, event),
                   !.events[event].position = location.position]

(* moveEvent(data, event, location): player.js 86-91.  The event has been  *)
(* removed from its room when room.events of a missing room throws.        *)
moveEvent(w, event, location) ==
    LET w1 == removeEvent(w, event)
    IN IF w1.exc # "" THEN w1
       ELSE IF location.room \notin RoomIds(w1) THEN [w1 EXCEPT !.exc = "TypeError"]
       ELSE [w1 EXCEPT !.rooms[location.room].events = Append(@, event),
                       !.events[event].position = location.position]

(* clearFields discarding the fields of the key whatever their type. *)
clearFields_WholeKey(fields, name, type) ==
    SelectSeq(fields, LAMBDA field : field.key # name)

(* clearFields / replaceFields: player.js 503-523. *)
clearFields(fields, name, type) ==
    SelectSeq(fields, LAMBDA field : ~FieldMatches(field, name, type))

(* replaceFields discarding the captured say lines of the event. *)
replaceFields_DropsRecord(w, event, name, type, values) ==
    IF event = NoRef THEN [w EXCEPT !.exc = "TypeError"]
    ELSE [w EXCEPT !.events[event].fields =
            clearFields(@, name, type) \o [i \in DOMAIN values |-> Field(name, type, values[i])],
                   !.events[event].saysDefined = FALSE,
                   !.events[event].says = <<>>]

replaceFields(w, event, name, type, values) ==
    IF event = NoRef THEN [w EXCEPT !.exc = "TypeError"]
    ELSE [w EXCEPT !.events[event].fields =
            clearFields(@, name, type) \o [i \in DOMAIN values |-> Field(name, type, values[i])]]

----------------------------------------------------------------------------
(* The dialogue box (DialoguePlayer).  pages is the page on screen         *)
(* followed by the queued ones; a page records the task awaiting its       *)
(* queue() promise (0: none).  revealed: every glyph of the page on screen *)
(* is shown.  A text is a sequence of its parts.                           *)

Page(text, style, waiter) == [text |-> text, style |-> style, waiter |-> waiter]

NoDialogue == [pages |-> <<>>, revealed |-> FALSE]

empty(w) == w.dialoguePlayer.pages = <<>>

(* The tasks a departing page or the "empty" signal resumes. *)
Wake(w, slots) ==
    [w EXCEPT !.tasks = [t \in DOMAIN @ |->
        IF t \in slots THEN [@[t] EXCEPT !.st = "run"] ELSE @[t]]]

DialogueWaiters(w) == {t \in DOMAIN w.tasks : w.tasks[t].st = "dlg"}

SayWaiters(w, pages) ==
    {t \in DOMAIN w.tasks : w.tasks[t].st = "say" /\ \E i \in DOMAIN pages : pages[i].waiter = t}

(* dialoguePlayer.clear(): drops every page and signals "empty". *)
clearDialogue(w) ==
    LET gone == w.dialoguePlayer.pages
    IN Wake([w EXCEPT !.dialoguePlayer = NoDialogue],
            DialogueWaiters(w) \cup SayWaiters(w, gone))

(* dialoguePlayer.queue(script, options). *)
queue(w, text, style, waiter) ==
    IF Len(w.dialoguePlayer.pages) >= MaxPages THEN [w EXCEPT !.ok = FALSE]
    ELSE [w EXCEPT !.dialoguePlayer.pages = Append(@, Page(text, style, waiter)),
                   !.dialoguePlayer.revealed = IF empty(w) THEN FALSE ELSE @]

(* dialoguePlayer.skip(): reveals the page on screen, or, when it is       *)
(* revealed, moves to the next page and signals "empty" after the last.    *)
skip(w) ==
    IF empty(w) THEN w
    ELSE IF ~w.dialoguePlayer.revealed THEN [w EXCEPT !.dialoguePlayer.revealed = TRUE]
    ELSE LET gone == <<Head(w.dialoguePlayer.pages)>>
             left == Tail(w.dialoguePlayer.pages)
         IN Wake([w EXCEPT !.dialoguePlayer = [pages |-> left, revealed |-> FALSE]],
                 SayWaiters(w, gone) \cup (IF left = <<>> THEN DialogueWaiters(w) ELSE {}))

----------------------------------------------------------------------------
(* bipsi.Player: clear, showError, getActivePalette. *)

(* clear(): player.js 218-222. *)
clear(w) == clearDialogue([w EXCEPT !.ready = FALSE, !.error = FALSE])

(* showError(text): player.js 350-358. *)
showError(w, text) ==
    skip(queue(clearDialogue([w EXCEPT !.error = TRUE]), text, "error", 0))

(* getActivePalette(): player.js 360-365; room.palette of an avatar that   *)
(* is in no room is a TypeError.                                           *)
getActivePaletteThrows(w) ==
    roomFromEvent(w, getEventById(w, w.avatarId)) = NoRoom

----------------------------------------------------------------------------
(* Tasks and frames. *)

Frame(kind, ev, pc) ==
    [kind |-> kind, ev |-> ev, pc |-> pc, ip |-> 1, avatar |-> NoRef, code |-> ""]

Idle == [st |-> "idle", stack |-> <<>>]

Slots == 1..MaxTasks

FreeSlots(w) == {t \in Slots : w.tasks[t].st = "idle"}

FirstFree(w) == CHOOSE t \in FreeSlots(w) : \A u \in FreeSlots(w) : t <= u

Runnable(w) == {t \in Slots : w.tasks[t].st = "run"}

Top(w, t) == Head(w.tasks[t].stack)

(* The innermost call of task t has returned: its caller resumes.  move    *)
(* releases busy (player.js 327); start has nothing left to do.            *)
Finish(w, t) ==
    LET rest == Tail(w.tasks[t].stack)
    IN IF rest = <<>> THEN [w EXCEPT !.tasks[t] = Idle]
       ELSE IF Head(rest).kind = "move" THEN [w EXCEPT !.tasks[t] = Idle, !.busy = FALSE]
       ELSE IF Head(rest).kind = "start" THEN [w EXCEPT !.tasks[t] = Idle]
       ELSE [w EXCEPT !.tasks[t] = [st |-> "run", stack |-> rest]]

(* touch without its catch: the exception ends the task. *)
Raise_Uncaught(w, t, e) == [w EXCEPT !.tasks[t] = Idle]

(* An exception reaches the innermost call of task t.  A script's touch    *)
(* catches it (player.js 341-344) and returns; the standard pipeline lets  *)
(* it through to its caller; move and start end rejected, and move has not *)
(* released busy.                                                          *)
RECURSIVE Raise(_, _, _)
Raise(w, t, e) ==
    LET stack == w.tasks[t].stack
    IN IF stack = <<>> THEN [w EXCEPT !.tasks[t] = Idle]
       ELSE IF Head(stack).kind = "script"
            THEN Finish(showError(w, <<"SCRIPT ERROR:", e>>), t)
       ELSE IF Head(stack).kind = "std"
            THEN Raise([w EXCEPT !.tasks[t].stack = Tail(stack)], t, e)
       ELSE [w EXCEPT !.tasks[t] = Idle]

(* touch running the standard pipeline whatever the event's fields. *)
touch_AlwaysStandard(w, t, event) ==
    [w EXCEPT !.tasks[t].st = "run",
              !.tasks[t].stack = <<Frame("std", event, "title")>> \o @]

(* this.touch(event) called by the innermost call of task t:               *)
(* player.js 330-348.  generateScriptingDefines (529-559) runs before the  *)
(* try block, and reads the active palette.                                *)
touch(w, t, event) ==
    IF event = NoRef THEN Raise(w, t, "TypeError")
    ELSE IF Len(w.tasks[t].stack) >= MaxDepth THEN [w EXCEPT !.ok = FALSE]
    ELSE IF hasField(w.events[event], "touch", "javascript")
         THEN IF getActivePaletteThrows(w) THEN Raise(w, t, "TypeError")
              ELSE [w EXCEPT !.tasks[t].st = "run",
                             !.tasks[t].stack = <<[Frame("script", event, "script") EXCEPT
                                   !.avatar = getEventById(w, w.avatarId),
                                   !.code = oneField(w.events[event], "touch", "javascript").data.text]>> \o @]
    ELSE [w EXCEPT !.tasks[t].st = "run",
                   !.tasks[t].stack = <<Frame("std", event, "title")>> \o @]

----------------------------------------------------------------------------
(* Touch scripts.  A script is a sequence of calls on the capability table *)
(* of generateScriptingDefines (player.js 529-559).  tgt names the event a *)
(* call is given: EVENT, AVATAR, or AT for EVENT_AT(loc).  TOUCH is the    *)
(* awaited call, await TOUCH(event); START is TOUCH(event) called without  *)
(* await, the script going on while that touch is in flight.               *)

Cmd(op, tgt, loc, text) ==
    [op |-> op, tgt |-> tgt, loc |-> loc, text |-> text,
     key |-> "", type |-> "", values |-> <<>>]

(* SET_FIELDS(EVENT_AT(loc), key, type, ...values). *)
SetFields(loc, key, type, values) ==
    [Cmd("SET_FIELDS", "AT", loc, "") EXCEPT !.key = key, !.type = type, !.values = values]

At(r, x, y) == [room |-> r, position |-> <<x, y>>]

Script(code) ==
    CASE code = "throw"        -> <<Cmd("THROW", "", NoLocation, "Error: x")>>
      [] code = "say"          -> <<Cmd("SAY", "", NoLocation, "s"),
                                    Cmd("SAY", "", NoLocation, "t"),
                                    Cmd("DIALOGUE", "", NoLocation, "")>>
      [] code = "move"         -> <<Cmd("MOVE", "EVENT", At(1, 2, 3), "")>>
      [] code = "moveOff"      -> <<Cmd("MOVE", "EVENT", At(0, 0 - 1, 0), "")>>
      [] code = "moveNowhere"  -> <<Cmd("MOVE", "EVENT", At(2, 0, 0), "")>>
      [] code = "remove"       -> <<Cmd("REMOVE", "EVENT", NoLocation, "")>>
      [] code = "removeAvatar" -> <<Cmd("REMOVE", "AVATAR", NoLocation, "")>>
      [] code = "touch"        -> <<Cmd("TOUCH", "AT", At(0, 2, 1), "")>>
      [] code = "delay"        -> <<Cmd("DELAY", "", NoLocation, ""),
                                    Cmd("SAY", "", NoLocation, "d")>>
      [] code = "touchSelf"    -> <<Cmd("SAY", "", NoLocation, "s"),
                                    Cmd("TOUCH", "EVENT", NoLocation, "")>>
      [] code = "wait"         -> <<Cmd("DIALOGUE", "", NoLocation, ""),
                                    Cmd("SAY", "", NoLocation, "s"),
                                    Cmd("START", "AT", At(0, 2, 1), ""),
                                    Cmd("DIALOGUE", "", NoLocation, ""),
                                    Cmd("SAY", "", NoLocation, "t"),
                                    Cmd("DIALOGUE", "", NoLocation, "")>>
      [] code = "setSays"      -> <<SetFields(At(0, 0, 0), "say", "dialogue", <<Text("x")>>)>>
      [] code = "setCycle"     -> <<SetFields(At(0, 0, 0), "say-mode", "text", <<Text("cycle")>>)>>
      [] OTHER                 -> <<>>

Codes == {"throw", "say", "move", "moveOff", "moveNowhere", "remove",
          "removeAvatar", "touch", "delay", "touchSelf", "wait"}

(* The event a script call names. *)
Resolve(w, frame, cmd) ==
    CASE cmd.tgt = "EVENT"  -> frame.ev
      [] cmd.tgt = "AVATAR" -> frame.avatar
      [] OTHER              -> IF cmd.loc.room \in RoomIds(w)
                               THEN getEventAtLocation(w, cmd.loc) ELSE NoRef

SetPc(w, t, pc) == [w EXCEPT !.tasks[t].stack[1].pc = pc]

(* A call of the data helpers made by task t: its exception, if any, is    *)
(* raised in the task's innermost call.                                    *)
Try(w, t) == IF w.exc = "" THEN w ELSE Raise([w EXCEPT !.exc = ""], t, w.exc)

(* The dialogue waiter suspending its caller whatever the box holds. *)
awaitDialogue_AlwaysSuspends(w, t) == [w EXCEPT !.tasks[t].st = "dlg"]

(* await this.dialogueWaiter: player.js 148-156. *)
awaitDialogue(w, t) == IF empty(w) THEN w ELSE [w EXCEPT !.tasks[t].st = "dlg"]

(* A script whose TOUCH is refused while busy is set or a dialogue is up. *)
scriptStep_GuardedTouch(w, t) ==
    LET frame == Top(w, t)
        cmds == Script(frame.code)
    IN IF frame.ip > Len(cmds) THEN Finish(w, t)
       ELSE LET cmd == cmds[frame.ip]
                w1 == [w EXCEPT !.tasks[t].stack[1].ip = @ + 1]
                target == Resolve(w, frame, cmd)
            IN CASE cmd.op = "THROW"    -> Raise(w1, t, cmd.text)
                 [] cmd.op = "MOVE"     -> Try(moveEvent(w1, target, cmd.loc), t)
                 [] cmd.op = "REMOVE"   -> Try(removeEvent(w1, target), t)
                 [] cmd.op = "TOUCH"    -> IF w.busy \/ ~empty(w) THEN w1
                                           ELSE touch(w1, t, target)
                 [] cmd.op = "START"    -> IF w.busy \/ ~empty(w) THEN w1
                                           ELSE IF FreeSlots(w1) = {} THEN [w1 EXCEPT !.ok = FALSE]
                                           ELSE touch(w1, FirstFree(w1), target)
                 [] cmd.op = "SET_FIELDS" ->
                        Try(replaceFields(w1, target, cmd.key, cmd.type, cmd.values), t)
                 [] cmd.op = "SAY"      -> queue(w1, <<cmd.text>>, "say", 0)
                 [] cmd.op = "DIALOGUE" -> awaitDialogue(w1, t)
                 [] cmd.op = "DELAY"    -> [w1 EXCEPT !.tasks[t].st = "delay"]
                 [] OTHER               -> w1

(* One call of the running script of task t. *)
scriptStep(w, t) ==
    LET frame == Top(w, t)
        cmds == Script(frame.code)
    IN IF frame.ip > Len(cmds) THEN Finish(w, t)
       ELSE LET cmd == cmds[frame.ip]
                w1 == [w EXCEPT !.tasks[t].stack[1].ip = @ + 1]
                target == Resolve(w, frame, cmd)
            IN CASE cmd.op = "THROW"    -> Raise(w1, t, cmd.text)
                 [] cmd.op = "MOVE"     -> Try(moveEvent(w1, target, cmd.loc), t)
                 [] cmd.op = "REMOVE"   -> Try(removeEvent(w1, target), t)
                 [] cmd.op = "TOUCH"    -> touch(w1, t, target)
                 [] cmd.op = "START"    -> IF FreeSlots(w1) = {} THEN [w1 EXCEPT !.ok = FALSE]
                                           ELSE touch(w1, FirstFree(w1), target)
                 [] cmd.op = "SET_FIELDS" ->
                        Try(replaceFields(w1, target, cmd.key, cmd.type, cmd.values), t)
                 [] cmd.op = "SAY"      -> queue(w1, <<cmd.text>>, "say", 0)
                 [] cmd.op = "DIALOGUE" -> awaitDialogue(w1, t)
                 [] cmd.op = "DELAY"    -> [w1 EXCEPT !.tasks[t].st = "delay"]
                 [] OTHER               -> w1

----------------------------------------------------------------------------
(* The standard touch pipeline: player.js 373-483.                         *)

Swap(array, i, j) == [array EXCEPT ![i] = array[j], ![j] = array[i]]

(* shuffleArray (player.js 102-107) from index i down, with choice[i] the  *)
(* index drawn for i.                                                      *)
RECURSIVE shuffleArray(_, _, _)
shuffleArray(array, i, choice) ==
    IF i <= 1 THEN array ELSE shuffleArray(Swap(array, i, choice[i]), i - 1, choice)

(* The orders shuffleArray can leave n elements in. *)
ShuffleOrders(n) ==
    {shuffleArray([i \in 1..n |-> i], n, choice) :
        choice \in {c \in [1..n -> 1..n] : \A i \in 1..n : c[i] <= i}}

sayModeOf(e) ==
    IF hasField(e, "say-mode", "text") THEN oneField(e, "say-mode", "text").data.text
    ELSE Undefined

(* The orders shuffleArray (player.js 102-107) can leave a captured list   *)
(* in; the field order in every other say-mode.                            *)
Orders(e) ==
    LET n == Len(allFields(e, "say", "dialogue"))
    IN IF ~e.saysDefined /\ sayModeOf(e) = "shuffle" THEN ShuffleOrders(n)
       ELSE {[i \in 1..n |-> i]}

(* runEventDialogue starting over after the last line in every say-mode. *)
runSays_AlwaysWraps(w, event, order) ==
    LET e == w.events[event]
        says == allFields(e, "say", "dialogue")
        sayMode == sayModeOf(e)
        captured == IF e.saysDefined THEN e
                    ELSE [e EXCEPT !.says = [i \in DOMAIN says |-> says[order[i]].data.text],
                                   !.saysDefined = TRUE,
                                   !.sayProgress = 0]
        progress == captured.sayProgress + 1
        advanced == IF progress >= Len(captured.says)
                    THEN IF TRUE
                         THEN [captured EXCEPT !.says = <<>>, !.saysDefined = FALSE,
                                               !.sayProgress = progress]
                         ELSE [captured EXCEPT !.sayProgress = Len(captured.says) - 1]
                    ELSE [captured EXCEPT !.sayProgress = progress]
    IN IF Len(captured.says) > 0
       THEN queue([w EXCEPT !.events[event] = advanced,
                            !.said = Append(@, captured.says[captured.sayProgress + 1])],
                  <<captured.says[captured.sayProgress + 1]>>, "say", 0)
       ELSE [w EXCEPT !.events[event] = captured]

(* runEventDialogue starting over after the last line in shuffle mode only. *)
runSays_CycleClamps(w, event, order) ==
    LET e == w.events[event]
        says == allFields(e, "say", "dialogue")
        sayMode == sayModeOf(e)
        captured == IF e.saysDefined THEN e
                    ELSE [e EXCEPT !.says = [i \in DOMAIN says |-> says[order[i]].data.text],
                                   !.saysDefined = TRUE,
                                   !.sayProgress = 0]
        progress == captured.sayProgress + 1
        advanced == IF progress >= Len(captured.says)
                    THEN IF sayMode = "shuffle"
                         THEN [captured EXCEPT !.says = <<>>, !.saysDefined = FALSE,
                                               !.sayProgress = progress]
                         ELSE [captured EXCEPT !.sayProgress = Len(captured.says) - 1]
                    ELSE [captured EXCEPT !.sayProgress = progress]
    IN IF Len(captured.says) > 0
       THEN queue([w EXCEPT !.events[event] = advanced,
                            !.said = Append(@, captured.says[captured.sayProgress + 1])],
                  <<captured.says[captured.sayProgress + 1]>>, "say", 0)
       ELSE [w EXCEPT !.events[event] = captured]

(* runEventDialogue capturing the say lines anew on every trigger. *)
runSays_Recaptures(w, event, order) ==
    LET e == w.events[event]
        says == allFields(e, "say", "dialogue")
        sayMode == sayModeOf(e)
        captured == IF FALSE THEN e
                    ELSE [e EXCEPT !.says = [i \in DOMAIN says |-> says[order[i]].data.text],
                                   !.saysDefined = TRUE,
                                   !.sayProgress = 0]
        progress == captured.sayProgress + 1
        advanced == IF progress >= Len(captured.says)
                    THEN IF sayMode = "shuffle" \/ sayMode = "cycle"
                         THEN [captured EXCEPT !.says = <<>>, !.saysDefined = FALSE,
                                               !.sayProgress = progress]
                         ELSE [captured EXCEPT !.sayProgress = Len(captured.says) - 1]
                    ELSE [captured EXCEPT !.sayProgress = progress]
    IN IF Len(captured.says) > 0
       THEN queue([w EXCEPT !.events[event] = advanced,
                            !.said = Append(@, captured.says[captured.sayProgress + 1])],
                  <<captured.says[captured.sayProgress + 1]>>, "say", 0)
       ELSE [w EXCEPT !.events[event] = captured]

(* runEventDialogue showing an empty page when there is no say line. *)
runSays_ShowsEmpty(w, event, order) ==
    LET e == w.events[event]
        says == allFields(e, "say", "dialogue")
        sayMode == sayModeOf(e)
        captured == IF e.saysDefined THEN e
                    ELSE [e EXCEPT !.says = [i \in DOMAIN says |-> says[order[i]].data.text],
                                   !.saysDefined = TRUE,
                                   !.sayProgress = 0]
        progress == captured.sayProgress + 1
        advanced == IF progress >= Len(captured.says)
                    THEN IF sayMode = "shuffle" \/ sayMode = "cycle"
                         THEN [captured EXCEPT !.says = <<>>, !.saysDefined = FALSE,
                                               !.sayProgress = progress]
                         ELSE [captured EXCEPT !.sayProgress = Len(captured.says) - 1]
                    ELSE [captured EXCEPT !.sayProgress = progress]
    IN IF Len(captured.says) > 0
       THEN queue([w EXCEPT !.events[event] = advanced,
                            !.said = Append(@, captured.says[captured.sayProgress + 1])],
                  <<captured.says[captured.sayProgress + 1]>>, "say", 0)
       ELSE queue([w EXCEPT !.events[event] = captured], <<"">>, "say", 0)

(* runEventDialogue leaving the cursor behind the last line. *)
runSays_NoClamp(w, event, order) ==
    LET e == w.events[event]
        says == allFields(e, "say", "dialogue")
        sayMode == sayModeOf(e)
        captured == IF e.saysDefined THEN e
                    ELSE [e EXCEPT !.says = [i \in DOMAIN says |-> says[order[i]].data.text],
                                   !.saysDefined = TRUE,
                                   !.sayProgress = 0]
        progress == captured.sayProgress + 1
        advanced == IF progress >= Len(captured.says)
                    THEN IF sayMode = "shuffle" \/ sayMode = "cycle"
                         THEN [captured EXCEPT !.says = <<>>, !.saysDefined = FALSE,
                                               !.sayProgress = progress]
                         ELSE [captured EXCEPT !.sayProgress = progress]
                    ELSE [captured EXCEPT !.sayProgress = progress]
    IN IF Len(captured.says) > 0
       THEN queue([w EXCEPT !.events[event] = advanced,
                            !.said = Append(@, captured.says[captured.sayProgress + 1])],
                  <<captured.says[captured.sayProgress + 1]>>, "say", 0)
       ELSE [w EXCEPT !.events[event] = captured]

(* runEventDialogue after the title: player.js 399-426. *)
runSays(w, event, order) ==
    LET e == w.events[event]
        says == allFields(e, "say", "dialogue")
        sayMode == sayModeOf(e)
        captured == IF e.saysDefined THEN e
                    ELSE [e EXCEPT !.says = [i \in DOMAIN says |-> says[order[i]].data.text],
                                   !.saysDefined = TRUE,
                                   !.sayProgress = 0]
        progress == captured.sayProgress + 1
        advanced == IF progress >= Len(captured.says)
                    THEN IF sayMode = "shuffle" \/ sayMode = "cycle"
                         THEN [captured EXCEPT !.says = <<>>, !.saysDefined = FALSE,
                                               !.sayProgress = progress]
                         ELSE [captured EXCEPT !.sayProgress = Len(captured.says) - 1]
                    ELSE [captured EXCEPT !.sayProgress = progress]
    IN IF Len(captured.says) > 0
       THEN queue([w EXCEPT !.events[event] = advanced,
                            !.said = Append(@, captured.says[captured.sayProgress + 1])],
                  <<captured.says[captured.sayProgress + 1]>>, "say", 0)
       ELSE [w EXCEPT !.events[event] = captured]

(* runEventDialogue, the title: player.js 391-397. *)
runEventTitle(w, t, event) ==
    LET e == w.events[event]
    IN IF ~hasField(e, "title", "dialogue") THEN SetPc(w, t, "says")
       ELSE IF getActivePaletteThrows(w) THEN Raise(w, t, "TypeError")
       ELSE [queue(SetPc(w, t, "says"), <<oneField(e, "title", "dialogue").data.text>>, "title", t)
               EXCEPT !.tasks[t].st = "say"]

(* runEventDialogue returning without the dialogue waiter. *)
runEventDialogue_NoWait(w, t, event, order) ==
    runSays(SetPc(w, t, "exit"), event, order)

(* runEventDialogue, the say lines and the wait: player.js 399-428. *)
runEventDialogue(w, t, event, order) ==
    awaitDialogue(runSays(SetPc(w, t, "exit"), event, order), t)

(* runEventExit relocating the touched event. *)
runEventExit_MovesEvent(w, t, event) ==
    LET e == w.events[event]
        w1 == SetPc(w, t, "remove")
    IN IF hasField(e, "exit", "location")
       THEN Try(moveEvent(w1, event, oneField(e, "exit", "location").data.location), t)
       ELSE w1

(* runEventExit: player.js 436-443. *)
runEventExit(w, t, event) ==
    LET e == w.events[event]
        avatar == getEventById(w, w.avatarId)
        w1 == SetPc(w, t, "remove")
    IN IF hasField(e, "exit", "location")
       THEN Try(moveEvent(w1, avatar, oneField(e, "exit", "location").data.location), t)
       ELSE w1

(* runEventRemove keeping an event that has an exit. *)
runEventRemove_KeepsExits(w, t, event) ==
    LET w1 == SetPc(w, t, "ending")
    IN IF eventIsTagged(w.events[event], "one-time") /\ ~hasField(w.events[event], "exit", "location")
       THEN Try(removeEvent(w1, event), t)
       ELSE w1

(* runEventRemove: player.js 450-454. *)
runEventRemove(w, t, event) ==
    LET w1 == SetPc(w, t, "ending")
    IN IF eventIsTagged(w.events[event], "one-time")
       THEN Try(removeEvent(w1, event), t)
       ELSE w1

(* runEventEnding going on without awaiting the say. *)
runEventEnding_NoWait(w, t, event) ==
    LET e == w.events[event]
    IN IF ~hasField(e, "ending", "dialogue") THEN SetPc(w, t, "misc")
       ELSE IF getActivePaletteThrows(w) THEN Raise(w, t, "TypeError")
       ELSE queue(SetPc(w, t, "restart"), <<oneField(e, "ending", "dialogue").data.text>>, "ending", 0)

(* runEventEnding up to the awaited say: player.js 461-466. *)
runEventEnding(w, t, event) ==
    LET e == w.events[event]
    IN IF ~hasField(e, "ending", "dialogue") THEN SetPc(w, t, "misc")
       ELSE IF getActivePaletteThrows(w) THEN Raise(w, t, "TypeError")
       ELSE [queue(SetPc(w, t, "restart"), <<oneField(e, "ending", "dialogue").data.text>>, "ending", t)
               EXCEPT !.tasks[t].st = "say"]

(* restart taking a new backup before it reloads. *)
restart_BacksUp(w, t) ==
    LET w1 == clear(SetPc([w EXCEPT !.stateBackup = [rooms |-> w.rooms, events |-> w.events]],
                          t, "misc"))
    IN IF FreeSlots(w1) = {} THEN [w1 EXCEPT !.ok = FALSE]
       ELSE [w1 EXCEPT !.tasks[FirstFree(w1)] =
                [st |-> "copy", stack |-> <<Frame("start", NoRef, "start")>>]]

(* restart leaving ready as it is while it reloads. *)
restart_KeepsReady(w, t) ==
    LET w1 == [clear(SetPc(w, t, "misc")) EXCEPT !.ready = w.ready]
    IN IF FreeSlots(w1) = {} THEN [w1 EXCEPT !.ok = FALSE]
       ELSE [w1 EXCEPT !.tasks[FirstFree(w1)] =
                [st |-> "copy", stack |-> <<Frame("start", NoRef, "start")>>]]

(* player.restart() as called, not awaited, by runEventEnding              *)
(* (player.js 467): clear() runs at once (192-193), the rest of restart is *)
(* a call of its own, which waits for copyFrom.                            *)
restart(w, t) ==
    LET w1 == clear(SetPc(w, t, "misc"))
    IN IF FreeSlots(w1) = {} THEN [w1 EXCEPT !.ok = FALSE]
       ELSE [w1 EXCEPT !.tasks[FirstFree(w1)] =
                [st |-> "copy", stack |-> <<Frame("start", NoRef, "start")>>]]

(* runEventMisc: player.js 476-483. *)
runEventMisc(w, t, event) ==
    LET e == w.events[event]
        avatar == getEventById(w, w.avatarId)
    IN IF hasField(e, "set-avatar", "tile")
       THEN LET w1 == replaceFields(w, avatar, "graphic", "tile",
                                    <<oneField(e, "set-avatar", "tile").data>>)
            IN IF w1.exc # "" THEN Try(w1, t) ELSE Finish(w1, t)
       ELSE Finish(w, t)

(* standardEventTouch: player.js 373-384, one awaited step at a time. *)
standardEventTouch(w, t, order) ==
    LET frame == Top(w, t)
    IN CASE frame.pc = "title"   -> runEventTitle(w, t, frame.ev)
         [] frame.pc = "says"    -> runEventDialogue(w, t, frame.ev, order)
         [] frame.pc = "exit"    -> runEventExit(w, t, frame.ev)
         [] frame.pc = "remove"  -> runEventRemove(w, t, frame.ev)
         [] frame.pc = "ending"  -> runEventEnding(w, t, frame.ev)
         [] frame.pc = "restart" -> restart(w, t)
         [] OTHER                -> runEventMisc(w, t, frame.ev)

----------------------------------------------------------------------------
(* restart after clear(), and start: player.js 192-216.                    *)

FrameRefs(w) ==
    UNION {UNION {{frame.ev, frame.avatar} : frame \in Range(w.tasks[t].stack)} :
              t \in DOMAIN w.tasks} \ {NoRef}

RoomRefs(w) == UNION {Range(w.rooms[r].events) : r \in RoomIds(w)}

Older(ref) == IF ref = NoRef THEN NoRef ELSE <<ref[1] + 1, ref[2]>>

(* stateManager.copyFrom(stateBackup): the data becomes a fresh copy of    *)
(* the backup.  The objects of the data replaced live on only where a      *)
(* suspended call holds them, one restart older.                           *)
copyFrom(w, backup) ==
    LET held == FrameRefs(w) \cap DOMAIN w.events
    IN IF \E ref \in held : ref[1] >= MaxAge THEN [w EXCEPT !.ok = FALSE]
       ELSE [w EXCEPT
               !.rooms = backup.rooms,
               !.events = [ref \in DOMAIN backup.events \cup {Older(h) : h \in held} |->
                              IF ref[1] = 0 THEN backup.events[ref]
                              ELSE w.events[<<ref[1] - 1, ref[2]>>]],
               !.tasks = [t \in DOMAIN @ |-> [@[t] EXCEPT !.stack =
                              [i \in DOMAIN @ |-> [@[i] EXCEPT !.ev = Older(@),
                                                               !.avatar = Older(@)]]]]]

(* start leaving the avatar where it is in its room's collection. *)
start_NoPromote(w, t) ==
    LET players == SelectSeq(allEvents(w), LAMBDA e : eventIsTagged(w.events[e], "is-player"))
    IN IF players = <<>>
       THEN [showError(w, <<"NO EVENT WITH is-player TAG FOUND">>) EXCEPT !.tasks[t] = Idle]
       ELSE touch([w EXCEPT !.avatarId = w.events[players[1]].id,
                            !.ready = TRUE,
                            !.tasks[t].stack[1].pc = "await"], t, players[1])

(* start going on to ready without an avatar. *)
start_ReadyWithoutAvatar(w, t) ==
    LET players == SelectSeq(allEvents(w), LAMBDA e : eventIsTagged(w.events[e], "is-player"))
    IN IF players = <<>>
       THEN [showError(w, <<"NO EVENT WITH is-player TAG FOUND">>) EXCEPT
                !.tasks[t] = Idle, !.ready = TRUE]
       ELSE touch([moveEvent(w, players[1], getLocationOfEvent(w, players[1])) EXCEPT
                      !.avatarId = w.events[players[1]].id,
                      !.ready = TRUE,
                      !.tasks[t].stack[1].pc = "await"], t, players[1])

(* start setting busy for its opening touch. *)
start_HoldsBusy(w, t) ==
    LET players == SelectSeq(allEvents(w), LAMBDA e : eventIsTagged(w.events[e], "is-player"))
    IN IF players = <<>>
       THEN [showError(w, <<"NO EVENT WITH is-player TAG FOUND">>) EXCEPT !.tasks[t] = Idle]
       ELSE touch([moveEvent(w, players[1], getLocationOfEvent(w, players[1])) EXCEPT
                      !.avatarId = w.events[players[1]].id,
                      !.ready = TRUE,
                      !.busy = TRUE,
                      !.tasks[t].stack[1].pc = "await"], t, players[1])

(* start(): player.js 198-216. *)
start(w, t) ==
    LET players == SelectSeq(allEvents(w), LAMBDA e : eventIsTagged(w.events[e], "is-player"))
    IN IF players = <<>>
       THEN [showError(w, <<"NO EVENT WITH is-player TAG FOUND">>) EXCEPT !.tasks[t] = Idle]
       ELSE LET avatar == players[1]
                w1 == moveEvent(w, avatar, getLocationOfEvent(w, avatar))
                w2 == [w1 EXCEPT !.avatarId = w.events[avatar].id,
                                 !.ready = TRUE,
                                 !.tasks[t].stack[1].pc = "await"]
            IN touch(w2, t, avatar)

(* The objects no room and no call holds are gone. *)
Collect(w) ==
    [w EXCEPT !.events = [ref \in (RoomRefs(w) \cup FrameRefs(w)) \cap DOMAIN @ |-> @[ref]]]

----------------------------------------------------------------------------
(* bipsi.Player.move: player.js 297-328.                                   *)

(* move without its dialogue check, and without its busy check. *)
moveAccepts_NoDialogueCheck(w) == w.ready /\ ~w.busy

moveAccepts_NoBusyCheck(w) == w.ready /\ empty(w)

(* move refusing input once an error has been shown. *)
moveAccepts_RefusesAfterError(w) == w.ready /\ empty(w) /\ ~w.busy /\ ~w.error

(* player.js 298: the call goes on. *)
moveAccepts(w) == w.ready /\ empty(w) /\ ~w.busy

(* player.js 310. *)
moveBounded(tx, ty) == tx < 0 \/ tx >= GridSize \/ ty < 0 \/ ty >= GridSize

(* move stopped by walls only. *)
moveBlocked_WallsOnly(w, room, tx, ty) ==
    IF moveBounded(tx, ty) THEN FALSE ELSE wallmap[room][ty][tx] > 0

(* player.js 311. *)
moveBlocked(w, room, tx, ty) ==
    IF moveBounded(tx, ty) THEN FALSE ELSE cellIsSolid(w, room, tx, ty)

(* move stepping into solid cells. *)
moveAvatar_IgnoresBlocked(w, avatar, tx, ty, blocked, bounded) ==
    IF ~bounded THEN [w EXCEPT !.events[avatar].position = <<tx, ty>>] ELSE w

(* move relocating the avatar with moveEvent, which makes it topmost. *)
moveAvatar_Promotes(w, avatar, tx, ty, blocked, bounded) ==
    IF ~blocked /\ ~bounded
    THEN moveEvent(w, avatar, [room |-> roomFromEvent(w, avatar), position |-> <<tx, ty>>])
    ELSE w

(* player.js 314. *)
moveAvatar(w, avatar, tx, ty, blocked, bounded) ==
    IF ~blocked /\ ~bounded THEN [w EXCEPT !.events[avatar].position = <<tx, ty>>] ELSE w

(* move preferring the event under the avatar: event1 ?? event0. *)
moveTouches_PrefersOwnCell(w, room, avatar, tx, ty) ==
    LET f == w.events[avatar].position
        event0 == getEventsAt(w, w.rooms[room].events, tx, ty, avatar)
        event1 == getEventsAt(w, w.rooms[room].events, f[1], f[2], avatar)
    IN IF event1 # <<>> THEN event1[1]
       ELSE IF event0 # <<>> THEN event0[1]
       ELSE NoRef

(* player.js 319-322: event0 ?? event1. *)
moveTouches(w, room, avatar, tx, ty) ==
    LET f == w.events[avatar].position
        event0 == getEventsAt(w, w.rooms[room].events, tx, ty, avatar)
        event1 == getEventsAt(w, w.rooms[room].events, f[1], f[2], avatar)
    IN IF event0 # <<>> THEN event0[1]
       ELSE IF event1 # <<>> THEN event1[1]
       ELSE NoRef

(* The call up to the awaited touch, or to its end when nothing is         *)
(* touched.  avatar.position of a missing avatar is a TypeError, raised    *)
(* after busy was set.                                                     *)
move(w, dx, dy) ==
    IF ~moveAccepts(w) THEN w
    ELSE LET w1 == [w EXCEPT !.busy = TRUE]
             avatar == getEventById(w1, w1.avatarId)
             room == roomFromEvent(w1, avatar)
         IN IF avatar = NoRef THEN w1
            ELSE LET p == w1.events[avatar].position
                     tx == p[1] + dx
                     ty == p[2] + dy
                     bounded == moveBounded(tx, ty)
                     blocked == moveBlocked(w1, room, tx, ty)
                     w2 == moveAvatar(w1, avatar, tx, ty, blocked, bounded)
                     event == moveTouches(w2, room, avatar, tx, ty)
                 IN IF event = NoRef THEN [w2 EXCEPT !.busy = FALSE]
                    ELSE IF FreeSlots(w2) = {} THEN [w2 EXCEPT !.ok = FALSE]
                    ELSE LET t == FirstFree(w2)
                         IN touch([w2 EXCEPT !.touched = event, !.tasks[t] =
                                     [st |-> "run", stack |-> <<Frame("move", NoRef, "await")>>]],
                                  t, event)

(* proceed(): player.js 282-286. *)
proceed(w) == IF ~w.ready THEN w ELSE skip(w)

----------------------------------------------------------------------------
(* The project played: two rooms and nine events.                          *)

Event(id, x, y, fields) ==
    [id |-> id, position |-> <<x, y>>, fields |-> fields,
     says |-> <<>>, saysDefined |-> FALSE, sayProgress |-> 0]

Ref(id) == <<0, id>>

ProjectEvents(code, player) ==
    <<Event(1, 0, 0, (IF player THEN <<Tag("is-player")>> ELSE <<>>)
                     \o <<Field("graphic", "tile", Text("t1"))>>),
      Event(2, 2, 1, <<Tag("solid"), Say("a"), Say("b")>>),
      Event(3, 0, 1, <<Say("o"),
                       Field("exit", "location", Location(1, GridSize - 1, GridSize - 1))>>),
      Event(4, 1, 0, <<Tag("one-time"), Say("c")>>),
      Event(5, 1, 1, <<Tag("one-time"), Say("x"),
                       Field("exit", "location", Location(1, 3, 3)),
                       Field("touch", "javascript", Text(code))>>),
      Event(6, 1, 1, <<Say("m")>>),
      Event(7, GridSize - 2, GridSize - 1, <<Tag("one-time"),
                                             Field("exit", "location", Location(0, 2, 0))>>),
      Event(8, GridSize - 1, GridSize - 2, <<Tag("one-time"),
                                             Field("ending", "dialogue", Text("bye")),
                                             Field("set-avatar", "tile", Text("t2"))>>),
      Event(9, 2, 0, <<Say("r")>>)>>

Project(code, player) ==
    [rooms |-> [r \in {0, 1} |->
                  [events |-> IF r = 0 THEN <<Ref(1), Ref(2), Ref(3), Ref(4), Ref(5), Ref(6), Ref(9)>>
                              ELSE <<Ref(7), Ref(8)>>]],
     events |-> [ref \in {Ref(id) : id \in 1..9} |-> ProjectEvents(code, player)[ref[2]]]]

Abs(n) == IF n < 0 THEN 0 - n ELSE n

(* The steps an input callback asks for. *)
Steps == {d \in ((0 - MaxStep)..MaxStep) \X ((0 - MaxStep)..MaxStep) : Abs(d[1]) + Abs(d[2]) <= MaxStep}

NoCall == [op |-> "none", dx |-> 0, dy |-> 0, accepted |-> FALSE, event |-> NoRef,
           dt |-> 0, rendered |-> FALSE]

----------------------------------------------------------------------------
(* The state machine.                                                      *)

(* The project with one talking event: the avatar and, next to it, a       *)
(* solid event with n say lines and the given say-mode.                    *)
Lines == <<"a", "b", "c", "d">>

SayModes == {Undefined, "sequential", "cycle", "shuffle"}

SaysProject(mode, n) ==
    [rooms |-> [r \in {0, 1} |-> [events |-> IF r = 0 THEN <<Ref(1), Ref(2)>> ELSE <<>>]],
     events |-> [ref \in {Ref(1), Ref(2)} |->
        IF ref = Ref(1) THEN Event(1, 0, 0, <<Tag("is-player")>>)
        ELSE Event(2, 1, 0, <<Tag("solid")>>
                            \o [i \in 1..n |-> Say(Lines[i])]
                            \o (IF mode = Undefined THEN <<>>
                                ELSE <<Field("say-mode", "text", Text(mode))>>))]]

(* The state the constructor leaves (player.js 127-157), the project given. *)
Constructed(project) ==
        /\ rooms = project.rooms
        /\ events = project.events
        /\ stateBackup = [rooms |-> <<>>, events |-> <<>>]
        /\ avatarId = 0
        /\ ready = FALSE
        /\ busy = FALSE
        /\ error = FALSE
        /\ dialoguePlayer = NoDialogue
        /\ tasks = [t \in Slots |-> Idle]
        /\ time = 0
        /\ frameCount = 0
        /\ loaded = FALSE
        /\ lastCall = NoCall

NoLog == [on |-> FALSE, lines |-> <<>>]

Init ==
    \E code \in Codes, player \in BOOLEAN :
        /\ player \/ code = "throw"
        /\ Constructed(Project(code, player))
        /\ log = NoLog

(* The step leaves the world w. *)
Becomes(w) ==
    /\ w.ok
    /\ rooms' = w.rooms
    /\ events' = Collect(w).events
    /\ stateBackup' = w.stateBackup
    /\ avatarId' = w.avatarId
    /\ ready' = w.ready
    /\ busy' = w.busy
    /\ error' = w.error
    /\ dialoguePlayer' = w.dialoguePlayer
    /\ tasks' = w.tasks
    /\ UNCHANGED <<time, frameCount>>
    /\ log' = IF log.on THEN [log EXCEPT !.lines = @ \o w.said] ELSE log
    /\ Len(log'.lines) <= MaxTouches

(* loadBundle(bundle): player.js 185-190. *)
LoadBundle ==
    /\ ~loaded
    /\ loaded' = TRUE
    /\ LET w == clear(World)
       IN Becomes([w EXCEPT !.stateBackup = [rooms |-> w.rooms, events |-> w.events],
                            !.tasks[1] = [st |-> "run", stack |-> <<Frame("start", NoRef, "start")>>]])
    /\ lastCall' = NoCall

(* An input callback calls move(dx, dy). *)
Move(dx, dy) ==
    /\ Runnable(World) = {}
    /\ LET w == move(World, dx, dy)
       IN /\ Becomes(w)
          /\ lastCall' = [NoCall EXCEPT !.op = "move", !.dx = dx, !.dy = dy,
                                        !.accepted = moveAccepts(World), !.event = w.touched]
    /\ UNCHANGED loaded

(* An input callback calls proceed(). *)
Proceed ==
    /\ loaded
    /\ Runnable(World) = {}
    /\ ~empty(World)
    /\ Becomes(proceed(World))
    /\ lastCall' = NoCall
    /\ UNCHANGED loaded

(* The timer of a DELAY elapses: player.js 556. *)
Elapse(t) ==
    /\ Runnable(World) = {}
    /\ tasks[t].st = "delay"
    /\ Becomes([World EXCEPT !.tasks[t].st = "run"])
    /\ lastCall' = NoCall
    /\ UNCHANGED loaded

(* The copyFrom that restart awaits completes: player.js 194.  It loads    *)
(* the snapshot's resources, which takes a task of its own: the calls that *)
(* were runnable when restart was called have run by then.                 *)
Copied(t) ==
    /\ Runnable(World) = {}
    /\ tasks[t].st = "copy"
    /\ Becomes(copyFrom([World EXCEPT !.tasks[t].st = "run"], stateBackup))
    /\ lastCall' = NoCall
    /\ UNCHANGED loaded

(* The call of task t at the head of the microtask queue runs to its next  *)
(* await.                                                                  *)
Run(t) ==
    /\ tasks[t].st = "run"
    /\ LET frame == Top(World, t)
       IN CASE frame.kind = "script" -> Becomes(scriptStep(World, t))
            [] frame.kind = "std"    -> \E order \in Orders(events[frame.ev]) :
                                            Becomes(standardEventTouch(World, t, order))
            [] OTHER                 -> Becomes(start(World, t))
    /\ lastCall' = NoCall
    /\ UNCHANGED loaded

(* The while loop of update: player.js 229-232. *)
RECURSIVE updateFrames(_, _)
updateFrames(t, count) ==
    IF t >= FrameMs THEN updateFrames(t - FrameMs, count + 1) ELSE <<t, count>>

(* dialoguePlayer.update(dt): the page on screen goes on revealing its     *)
(* glyphs and may come to be fully revealed.                               *)
updateDialogue(dp, shown) ==
    IF dp.pages = <<>> THEN dp ELSE [dp EXCEPT !.revealed = @ \/ shown]

(* render(): player.js 240-278.  It reads the active palette before it     *)
(* draws, and dispatches "render" as its last statement.                   *)
render(w) == IF getActivePaletteThrows(w) THEN [w EXCEPT !.exc = "TypeError"] ELSE w

(* The animation callback calls update(dt): player.js 224-239. *)
Update(dt) ==
    /\ Runnable(World) = {}
    /\ IF ~ready THEN UNCHANGED <<time, frameCount, dialoguePlayer>>
       ELSE LET after == updateFrames(time + dt, frameCount)
            IN /\ after[2] <= MaxFrames
               /\ time' = after[1]
               /\ frameCount' = after[2]
               /\ \E shown \in BOOLEAN : dialoguePlayer' = updateDialogue(dialoguePlayer, shown)
    /\ lastCall' = [NoCall EXCEPT !.op = "update", !.dt = dt,
                                  !.rendered = ready /\ render(World).exc = ""]
    /\ UNCHANGED <<rooms, events, stateBackup, avatarId, ready, busy, error, tasks, log, loaded>>

Next ==
    \/ LoadBundle
    \/ \E d \in Steps : Move(d[1], d[2])
    \/ Proceed
    \/ \E t \in Slots : Elapse(t)
    \/ \E t \in Slots : Copied(t)
    \/ \E t \in Slots : Run(t)

Spec == Init /\ [][Next]_vars

(* The play sessions of the project whose avatar has a touch script that   *)
(* sleeps and then speaks, a talking event beside it and a solid talking   *)
(* event below it.                                                         *)
OpeningProject ==
    [rooms |-> [r \in {0, 1} |->
                  [events |-> IF r = 0 THEN <<Ref(1), Ref(2), Ref(3)>> ELSE <<>>]],
     events |-> [ref \in {Ref(id) : id \in 1..3} |->
        CASE ref = Ref(1) -> Event(1, 0, 0, <<Tag("is-player"),
                                             Field("touch", "javascript", Text("delay"))>>)
          [] ref = Ref(2) -> Event(2, 1, 0, <<Say("c")>>)
          [] OTHER        -> Event(3, 0, 1, <<Tag("solid"), Say("a"), Say("b")>>)]]

InitOpening ==
    /\ Constructed(OpeningProject)
    /\ log = NoLog

NextOpening ==
    \/ LoadBundle
    \/ \E d \in Steps : Move(d[1], d[2])
    \/ Proceed
    \/ \E t \in Slots : Elapse(t)
    \/ \E t \in Slots : Run(t)

SpecOpening == InitOpening /\ [][NextOpening]_vars

(* The play sessions in which the player keeps dismissing the dialogue,    *)
(* every DELAY elapses, every reload completes and every call on the       *)
(* microtask queue runs.  The script that touches its own event never      *)
(* returns and is left out.                                                *)
InitLive ==
    /\ Init
    /\ oneField(events[Ref(5)], "touch", "javascript").data.text # "touchSelf"

SpecLive ==
    /\ InitLive
    /\ [][Next]_vars
    /\ WF_vars(LoadBundle)
    /\ WF_vars(Proceed)
    /\ \A t \in Slots : WF_vars(Elapse(t)) /\ WF_vars(Copied(t)) /\ WF_vars(Run(t))

(* The sessions in which frames are counted: the project without an        *)
(* is-player event, the one whose script sleeps and the one whose script   *)
(* removes the avatar.                                                     *)
InitFrames ==
    /\ Init
    /\ \/ \A e \in DOMAIN events : ~eventIsTagged(events[e], "is-player")
       \/ oneField(events[Ref(5)], "touch", "javascript").data.text \in {"delay", "removeAvatar"}

NextFrames ==
    \/ Next
    \/ \E dt \in Dts : Update(dt)

SpecFrames == InitFrames /\ [][NextFrames]_vars

(* The sessions of the talking event. *)
InitSays ==
    \E mode \in SayModes, n \in 0..MaxSays :
        /\ Constructed(SaysProject(mode, n))
        /\ log = [on |-> TRUE, lines |-> <<>>]

NextSays ==
    \/ LoadBundle
    \/ \E d \in Steps : Move(d[1], d[2])
    \/ Proceed
    \/ \E t \in Slots : Run(t)

SpecSays == InitSays /\ [][NextSays]_vars

(* The project of the sessions in which a script replaces the fields of a  *)
(* talking event: the avatar between a solid talking event with n say      *)
(* lines and a solid event with a touch script, above an event with an     *)
(* ending.                                                                 *)
RecordProject(mode, n, code) ==
    [rooms |-> [r \in {0, 1} |->
                  [events |-> IF r = 0 THEN <<Ref(1), Ref(2), Ref(3), Ref(4)>> ELSE <<>>]],
     events |-> [ref \in {Ref(id) : id \in 1..4} |->
        CASE ref = Ref(1) -> Event(1, 1, 0, <<Tag("is-player")>>)
          [] ref = Ref(2) -> Event(2, 0, 0, <<Tag("solid")>>
                                            \o [i \in 1..n |-> Say(Lines[i])]
                                            \o (IF mode = Undefined THEN <<>>
                                                ELSE <<Field("say-mode", "text", Text(mode))>>))
          [] ref = Ref(3) -> Event(3, 2, 0, <<Tag("solid"),
                                             Field("touch", "javascript", Text(code))>>)
          [] OTHER        -> Event(4, 1, 1, <<Field("ending", "dialogue", Text("bye"))>>)]]

(* The scripts that replace fields of the talking event. *)
RecordCodes == {"setSays", "setCycle"}

InitRecord ==
    \E n \in 0..MaxSays, code \in RecordCodes :
        /\ Constructed(RecordProject("sequential", n, code))
        /\ log = [on |-> TRUE, lines |-> <<>>]

NextRecord ==
    \/ LoadBundle
    \/ \E d \in Steps : Move(d[1], d[2])
    \/ Proceed
    \/ \E t \in Slots : Copied(t)
    \/ \E t \in Slots : Run(t)

SpecRecord == InitRecord /\ [][NextRecord]_vars

----------------------------------------------------------------------------
(* The project data under the calls that change its layout: MOVE and       *)
(* REMOVE of the capability table (player.js 543-544), the editor's        *)
(* createEvent and pasteSelectedEvent (editor.js 1764-1795) and the reload *)
(* of the snapshot.  lastCall records the call a step makes.               *)

(* nextEventId(data): one more than the greatest id in use. *)
nextEventId(w) ==
    LET ids == {w.events[e].id : e \in Range(allEvents(w))}
    IN IF ids = {} THEN 1 ELSE 1 + CHOOSE i \in ids : \A j \in ids : j <= i

(* createEvent(fieldsTemplate) on the selected room and cell:              *)
(* editor.js 1764-1776.                                                    *)
createEvent(w, room, x, y, fieldsTemplate) ==
    LET id == nextEventId(w)
        event == Event(id, x, y, fieldsTemplate)
    IN [w EXCEPT !.rooms[room].events = Append(@, Ref(id)),
                 !.events = [ref \in DOMAIN @ \cup {Ref(id)} |->
                               IF ref = Ref(id) THEN event ELSE @[ref]]]

(* pasteSelectedEvent() on the selected room and cell, the copied event    *)
(* given: editor.js 1785-1795.                                             *)
pasteSelectedEvent(w, room, x, y, copiedEvent) ==
    LET id == nextEventId(w)
        event == [copiedEvent EXCEPT !.id = id, !.position = <<x, y>>]
    IN [w EXCEPT !.rooms[room].events = Append(@, Ref(id)),
                 !.events = [ref \in DOMAIN @ \cup {Ref(id)} |->
                               IF ref = Ref(id) THEN event ELSE @[ref]]]

(* Two events: a solid one, and one whose solid tag holds false. *)
DataEvents ==
    <<Event(1, 0, 0, <<Tag("solid")>>),
      Event(2, GridSize - 1, GridSize - 1, <<Field("solid", "tag", Text("false")), Say("a")>>)>>

DataProject ==
    [rooms |-> [r \in {0, 1} |-> [events |-> IF r = 0 THEN <<Ref(1)>> ELSE <<Ref(2)>>]],
     events |-> [ref \in {Ref(id) : id \in 1..2} |-> DataEvents[ref[2]]]]

(* The locations the calls are given: two open cells of room 0, an open    *)
(* cell of room 1, and a cell of a room that is not there.                 *)
Locations == {At(0, 0, 0), At(0, 1, 0), At(1, GridSize - 1, GridSize - 1), At(2, 0, 0)}

(* The field list the editor creates events with: a solid field that is    *)
(* not a tag.                                                              *)
Templates == {<<Field("solid", "text", Text("true"))>>}

DataCall(op, event, location, exc) ==
    [op |-> op, event |-> event, location |-> location, exc |-> exc]

(* The project is loaded and nothing is played. *)
Loaded(project, call) ==
    /\ rooms = project.rooms
    /\ events = project.events
    /\ stateBackup = project
    /\ avatarId = 0
    /\ ready = FALSE
    /\ busy = FALSE
    /\ error = FALSE
    /\ dialoguePlayer = NoDialogue
    /\ tasks = [t \in Slots |-> Idle]
    /\ time = 0
    /\ frameCount = 0
    /\ loaded = TRUE
    /\ log = NoLog
    /\ lastCall = call

InitData == Loaded(DataProject, DataCall("none", NoRef, NoLocation, ""))

(* A script calls MOVE(event, location). *)
MOVE(event, location) ==
    /\ event \in DOMAIN events
    /\ LET w == moveEvent(World, event, location)
       IN /\ Becomes(w)
          /\ lastCall' = DataCall("MOVE", event, location, w.exc)
    /\ UNCHANGED loaded

(* A script calls REMOVE(event). *)
REMOVE(event) ==
    /\ event \in DOMAIN events
    /\ LET w == removeEvent(World, event)
       IN /\ Becomes(w)
          /\ lastCall' = DataCall("REMOVE", event, NoLocation, w.exc)
    /\ UNCHANGED loaded

(* The editor creates an event. *)
CreateEvent(location, fieldsTemplate) ==
    /\ location.room \in DOMAIN rooms
    /\ nextEventId(World) <= MaxEvents
    /\ Becomes(createEvent(World, location.room, location.position[1], location.position[2],
                           fieldsTemplate))
    /\ lastCall' = DataCall("createEvent", Ref(nextEventId(World)), location, "")
    /\ UNCHANGED loaded

(* The editor pastes the event it has copied. *)
PasteEvent(location, copiedEvent) ==
    /\ location.room \in DOMAIN rooms
    /\ nextEventId(World) <= MaxEvents
    /\ Becomes(pasteSelectedEvent(World, location.room, location.position[1],
                                  location.position[2], copiedEvent))
    /\ lastCall' = DataCall("pasteSelectedEvent", Ref(nextEventId(World)), location, "")
    /\ UNCHANGED loaded

(* The snapshot is loaded again, as by a restart: player.js 194. *)
Reload ==
    /\ Becomes(copyFrom(World, stateBackup))
    /\ lastCall' = DataCall("copyFrom", NoRef, NoLocation, "")
    /\ UNCHANGED loaded

NextData ==
    \/ \E event \in DOMAIN events, location \in Locations : MOVE(event, location)
    \/ \E event \in DOMAIN events : REMOVE(event)
    \/ \E location \in Locations, fieldsTemplate \in Templates : CreateEvent(location, fieldsTemplate)
    \/ \E location \in Locations, e \in DOMAIN events : PasteEvent(location, events[e])
    \/ Reload

SpecData == InitData /\ [][NextData]_vars

----------------------------------------------------------------------------
(* The fields of one event under SET_FIELDS (player.js 538), the event's   *)
(* field list being any list of up to MaxFields fields of FieldPool.       *)

FieldPool == {Tag("solid"), Field("solid", "tag", Text("false")),
              Field("solid", "text", Text("true")), Say("a")}

FieldLists == UNION {[1..n -> FieldPool] : n \in 0..MaxFields}

FieldsProject(fields) ==
    [rooms |-> [r \in {0, 1} |-> [events |-> IF r = 0 THEN <<Ref(1)>> ELSE <<>>]],
     events |-> [ref \in {Ref(1)} |-> Event(1, 0, 0, fields)]]

(* The arguments SET_FIELDS is called with. *)
Names == {"solid"}

Types == {"tag", "text", Undefined}

ValueLists == {<<>>, <<Text("true")>>, <<Text("false"), Text("true")>>}

FieldsCall(op, event, name, type, values) ==
    [op |-> op, event |-> event, name |-> name, type |-> type, values |-> values]

InitFields ==
    \E fields \in FieldLists :
        Loaded(FieldsProject(fields), FieldsCall("none", NoRef, "", Undefined, <<>>))

(* A script calls SET_FIELDS(event, name, type, ...values). *)
SET_FIELDS(event, name, type, values) ==
    /\ event \in DOMAIN events
    /\ LET w == replaceFields(World, event, name, type, values)
       IN /\ Len(w.events[event].fields) <= MaxFields
          /\ Becomes(w)
    /\ lastCall' = FieldsCall("SET_FIELDS", event, name, type, values)
    /\ UNCHANGED loaded

NextFields ==
    \E name \in Names, type \in Types, values \in ValueLists :
        SET_FIELDS(Ref(1), name, type, values)

SpecFields == InitFields /\ [][NextFields]_vars

----------------------------------------------------------------------------
(* Properties of move: player.js 297-328.                                  *)

Avatar == getEventById(World, avatarId)

(* The guard of move as the specification words it. *)
Ignored == ~ready \/ dialoguePlayer.pages # <<>> \/ busy

InGrid(x, y) == x \in Cells /\ y \in Cells

(* The first event of the avatar's room, other than the avatar, at (x, y). *)
FirstAt(x, y) ==
    LET list == rooms[roomFromEvent(World, Avatar)].events
        at == {i \in DOMAIN list : list[i] # Avatar /\ events[list[i]].position = <<x, y>>}
    IN IF at = {} THEN NoRef ELSE list[CHOOSE i \in at : \A j \in at : i <= j]

(* The step is a call of move; lastCall records the arguments of the call  *)
(* a step makes.                                                           *)
MoveCalled == lastCall'.op = "move" /\ Move(lastCall'.dx, lastCall'.dy)

Called == <<lastCall'.dx, lastCall'.dy>>

(* C1: an accepted move(dx, dy) leaves the avatar at the target cell when  *)
(* the target is inside the grid and not solid, and where it was in every  *)
(* other case.                                                             *)
C1_MoveRule ==
    [][(~Ignored /\ Avatar # NoRef /\ MoveCalled) =>
            LET d == Called
                p == events[Avatar].position
                tx == p[1] + d[1]
                ty == p[2] + d[2]
                free == IF InGrid(tx, ty)
                        THEN ~cellIsSolid(World, roomFromEvent(World, Avatar), tx, ty)
                        ELSE FALSE
            IN events'[Avatar].position = IF free THEN <<tx, ty>> ELSE p]_vars

C1_Witness ==
    /\ lastCall.op = "move" /\ lastCall.accepted /\ lastCall.dx = 1
    /\ Avatar # NoRef /\ events[Avatar].position = <<1, 0>>

(* C2: a move call made while the runtime is not ready, a dialogue is on   *)
(* screen or busy is set changes nothing of the player's state.            *)
C2_IgnoredMove ==
    [][(Ignored /\ MoveCalled) =>
            /\ UNCHANGED <<rooms, events, stateBackup, avatarId, ready, busy, error,
                           dialoguePlayer, tasks>>
            /\ lastCall'.event = NoRef]_vars

C2_Witness ==
    /\ lastCall.op = "move" /\ ~lastCall.accepted
    /\ ready /\ dialoguePlayer.pages = <<>> /\ busy

(* C3: at most one move call is between its acceptance and its release of  *)
(* busy, and busy is set for as long as it is.                             *)
MovesInFlight == {t \in Slots : \E i \in DOMAIN tasks[t].stack : tasks[t].stack[i].kind = "move"}

C3_OneMove ==
    /\ Cardinality(MovesInFlight) <= 1
    /\ MovesInFlight # {} => busy

C3_Witness ==
    /\ lastCall.op = "move" /\ ~lastCall.accepted
    /\ \E t \in MovesInFlight : tasks[t].st = "delay"

(* C4: an accepted move touches the first event, other than the avatar, at *)
(* the target cell; when there is none, the first one at the cell the      *)
(* avatar ends on; and it starts a touch on at most that one event.        *)
C4_TouchTarget ==
    [][(~Ignored /\ Avatar # NoRef /\ MoveCalled) =>
            LET d == Called
                p == events[Avatar].position
                f == events'[Avatar].position
                event0 == FirstAt(p[1] + d[1], p[2] + d[2])
                event1 == FirstAt(f[1], f[2])
                event == IF event0 # NoRef THEN event0 ELSE event1
                started == {t \in Slots : tasks'[t] # tasks[t]}
            IN /\ lastCall'.event = event
               /\ event = NoRef => started = {}
               /\ event # NoRef =>
                    \E t \in Slots :
                        /\ started = {t}
                        /\ Len(tasks'[t].stack) = 2
                        /\ tasks'[t].stack[1].ev = event
                        /\ tasks'[t].stack[2].kind = "move"]_vars

(* The avatar stands among the events of (1, 1) and has just walked into   *)
(* the solid event of (2, 1): that one is touched.                         *)
C4_Witness ==
    /\ lastCall.op = "move" /\ lastCall.accepted /\ lastCall.event = Ref(2)
    /\ Avatar # NoRef /\ events[Avatar].position = <<1, 1>>
    /\ Ref(6) \in RoomRefs(World) /\ events[Ref(6)].position = <<1, 1>>

(* The cell is solid by its wall or by a solid-tagged event of the room. *)
SolidCell(room, x, y) ==
    \/ wallmap[room][y][x] > 0
    \/ \E e \in Range(rooms[room].events) :
          /\ events[e].position = <<x, y>>
          /\ \E i \in DOMAIN events[e].fields :
                events[e].fields[i].key = "solid" /\ events[e].fields[i].type = "tag"

(* C5: an accepted move whose target is outside the grid leaves the avatar *)
(* where it was and touches the event, if any, at that unchanged cell.     *)
C5_OutOfGrid ==
    [][(~Ignored /\ Avatar # NoRef /\ MoveCalled) =>
            LET d == Called
                p == events[Avatar].position
            IN ~InGrid(p[1] + d[1], p[2] + d[2]) =>
                  /\ events'[Avatar].position = p
                  /\ lastCall'.event = FirstAt(p[1], p[2])]_vars

(* C6 as first stated: an accepted move whose target is in the grid and    *)
(* solid leaves the avatar where it was and touches the event, if any, at  *)
(* that unchanged cell.                                                    *)
C6_Original ==
    [][(~Ignored /\ Avatar # NoRef /\ MoveCalled) =>
            LET d == Called
                p == events[Avatar].position
                tx == p[1] + d[1]
                ty == p[2] + d[2]
            IN (InGrid(tx, ty) /\ SolidCell(roomFromEvent(World, Avatar), tx, ty)) =>
                  /\ events'[Avatar].position = p
                  /\ lastCall'.event = FirstAt(p[1], p[2])]_vars

(* C6: an accepted move whose target is in the grid and solid leaves the   *)
(* avatar where it was and touches the first event at the target cell, and *)
(* only when there is none the event, if any, at the unchanged cell.       *)
C6_Blocked ==
    [][(~Ignored /\ Avatar # NoRef /\ MoveCalled) =>
            LET d == Called
                p == events[Avatar].position
                tx == p[1] + d[1]
                ty == p[2] + d[2]
            IN (InGrid(tx, ty) /\ SolidCell(roomFromEvent(World, Avatar), tx, ty)) =>
                  /\ events'[Avatar].position = p
                  /\ lastCall'.event = IF FirstAt(tx, ty) # NoRef THEN FirstAt(tx, ty)
                                       ELSE FirstAt(p[1], p[2])]_vars

(* The avatar has walked from (2, 0) into the solid event of (2, 1). *)
C6_Witness ==
    /\ lastCall.op = "move" /\ lastCall.accepted /\ lastCall.dy = 1
    /\ lastCall.event = Ref(2)
    /\ Avatar # NoRef /\ events[Avatar].position = <<2, 0>>

(* C7: both components of every event's position are in [0, 16). *)
C7_InRange == \A e \in DOMAIN events : InGrid(events[e].position[1], events[e].position[2])

----------------------------------------------------------------------------
(* Properties of touch: player.js 330-358.                                 *)

HasScript(e) ==
    \E i \in DOMAIN events[e].fields :
        events[e].fields[i].key = "touch" /\ events[e].fields[i].type = "javascript"

ScriptEvents == {e \in DOMAIN events : HasScript(e)}

(* The scripts that neither move nor remove their own event. *)
Staying == {"throw", "say", "touch", "delay", "removeAvatar", "touchSelf", "wait"}

(* C8: a touch runs the script of an event that has one and the standard   *)
(* pipeline of an event that has none, never both: no say line of a        *)
(* scripted event is consumed, its one-time tag does not remove it and its *)
(* exit does not relocate the avatar.                                      *)
C8_OneBehaviour ==
    /\ \A t \in Slots : \A i \in DOMAIN tasks[t].stack :
          LET frame == tasks[t].stack[i]
          IN /\ frame.kind = "script" => HasScript(frame.ev)
             /\ frame.kind = "std" => ~HasScript(frame.ev)
    /\ \A e \in ScriptEvents :
          /\ ~events[e].saysDefined
          /\ (e[1] = 0 /\ oneField(events[e], "touch", "javascript").data.text \in Staying)
                => e \in RoomRefs(World)
          /\ Avatar # NoRef =>
                getLocationOfEvent(World, Avatar) # oneField(events[e], "exit", "location").data.location

(* The delaying script has run to its end and said its line. *)
C8_Witness ==
    /\ \E i \in DOMAIN dialoguePlayer.pages : dialoguePlayer.pages[i].text = <<"d">>
    /\ \A t \in Slots : tasks[t].st = "idle"
    /\ Ref(5) \in RoomRefs(World)

(* The next call of the running script of task t throws. *)
ScriptRaises(t) ==
    /\ tasks[t].st = "run"
    /\ Top(World, t).kind = "script"
    /\ Top(World, t).ip <= Len(Script(Top(World, t).code))
    /\ LET cmd == Script(Top(World, t).code)[Top(World, t).ip]
           target == Resolve(World, Top(World, t), cmd)
       IN \/ cmd.op = "THROW"
          \/ cmd.op = "MOVE" /\ (roomFromEvent(World, target) = NoRoom \/ cmd.loc.room \notin DOMAIN rooms)
          \/ cmd.op = "REMOVE" /\ roomFromEvent(World, target) = NoRoom
          \/ cmd.op = "TOUCH" /\ target = NoRef

RaisedText(t) ==
    LET cmd == Script(Top(World, t).code)[Top(World, t).ip]
    IN IF cmd.op = "THROW" THEN cmd.text ELSE "TypeError"

(* C9: an exception of a touch script does not leave touch: the touch      *)
(* returns to its caller (a move releases busy), ready stays as it was and *)
(* an error-styled page holding the exception's text is on screen.         *)
C9_ScriptErrorCaught ==
    [][\A t \in Slots :
        (ScriptRaises(t) /\ Run(t)) =>
            LET caller == tasks[t].stack[2]
            IN /\ caller.kind = "move" => (tasks'[t] = Idle /\ ~busy')
               /\ caller.kind = "start" => tasks'[t] = Idle
               /\ caller.kind = "script" =>
                     (tasks'[t].st = "run" /\ Len(tasks'[t].stack) = Len(tasks[t].stack) - 1)
               /\ ready' = ready
               /\ \E i \in DOMAIN dialoguePlayer'.pages :
                     /\ dialoguePlayer'.pages[i].style = "error"
                     /\ RaisedText(t) \in Range(dialoguePlayer'.pages[i].text)]_vars

C9_Witness ==
    /\ dialoguePlayer.pages # <<>>
    /\ dialoguePlayer.pages[1] = Page(<<"SCRIPT ERROR:", "Error: x">>, "error", 0)
    /\ ready /\ ~busy
    /\ \A t \in Slots : tasks[t].st = "idle"

(* C10: a touch whose script throws leaves the error flag as it was. *)
C10_ErrorFlagKept ==
    [][\A t \in Slots : (ScriptRaises(t) /\ Run(t)) => error' = error]_vars

----------------------------------------------------------------------------
(* Properties of the error paths: player.js 198-204, 282-286, 350-358.     *)

ScriptErrorShown ==
    /\ dialoguePlayer.pages # <<>>
    /\ dialoguePlayer.pages[1].style = "error"
    /\ dialoguePlayer.pages[1].text[1] = "SCRIPT ERROR:"

(* C11: while the error dialogue of a script is on screen a move call      *)
(* changes nothing; the step that dismisses it leaves the runtime ready,   *)
(* not busy and with no call in flight, so that the next move is accepted; *)
(* and a move accepted after a script error follows the movement rule.     *)
C11_InputAfterScriptError ==
    [][/\ (ScriptErrorShown /\ MoveCalled) =>
             UNCHANGED <<rooms, events, stateBackup, avatarId, ready, busy, error,
                         dialoguePlayer, tasks>>
       /\ (ScriptErrorShown /\ dialoguePlayer'.pages = <<>>) =>
             /\ ready' /\ ~busy'
             /\ \A t \in Slots : tasks'[t].st \notin {"run", "copy"}
       /\ (error /\ ~Ignored /\ Avatar # NoRef /\ MoveCalled) =>
             LET d == Called
                 p == events[Avatar].position
                 tx == p[1] + d[1]
                 ty == p[2] + d[2]
                 free == InGrid(tx, ty) /\ ~SolidCell(roomFromEvent(World, Avatar), tx, ty)
             IN /\ lastCall'.accepted
                /\ events'[Avatar].position = IF free THEN <<tx, ty>> ELSE p]_vars

(* After the script's error was dismissed the avatar has walked on. *)
C11_Witness ==
    /\ error /\ ready /\ dialoguePlayer.pages = <<>>
    /\ lastCall.op = "move" /\ lastCall.accepted /\ lastCall.dy = 0 - 1
    /\ Avatar # NoRef /\ events[Avatar].position = <<1, 0>>

(* The project that was loaded has no is-player event. *)
NoPlayer ==
    \A e \in DOMAIN stateBackup.events : ~eventIsTagged(stateBackup.events[e], "is-player")

(* C12: once start has found no is-player event, the error flag is set,    *)
(* ready is false, no touch is in flight, and the project data, the flags, *)
(* the time and the frame counter stay as they were whatever is called.    *)
C12_NoAvatar ==
    (loaded /\ NoPlayer /\ tasks[1].st = "idle") =>
        /\ error /\ ~ready /\ ~busy
        /\ avatarId = 0
        /\ \A t \in Slots : tasks[t] = Idle
        /\ rooms = stateBackup.rooms /\ events = stateBackup.events
        /\ time = 0 /\ frameCount = 0
        /\ dialoguePlayer.pages # <<>>
        /\ dialoguePlayer.pages[1].style = "error"

(* update has been called in the session without an avatar. *)
C12_Witness ==
    /\ loaded /\ NoPlayer /\ tasks[1].st = "idle"
    /\ lastCall.op = "update"

----------------------------------------------------------------------------
(* Properties of start and restart: player.js 168-216.                     *)

(* The is-player events of the project, in room and paint order. *)
Players == SelectSeq(allEvents(World), LAMBDA e : eventIsTagged(events[e], "is-player"))

(* Task t is about to run start() (player.js 198). *)
Starting(t) ==
    /\ tasks[t].st = "run"
    /\ Top(World, t).kind = "start"
    /\ Top(World, t).pc = "start"

Without(seq, v) == SelectSeq(seq, LAMBDA x : x # v)

(* C13: start, finding an is-player event, makes it the last element of    *)
(* its own room's collection, keeps its position and the order of the      *)
(* other events, records its id, sets ready, and has then entered touch on *)
(* it.                                                                     *)
C13_Start ==
    [][\A t \in Slots :
        (Starting(t) /\ Players # <<>> /\ Run(t)) =>
            LET avatar == Players[1]
                room == roomFromEvent(World, avatar)
            IN /\ rooms'[room].events = Append(Without(rooms[room].events, avatar), avatar)
               /\ \A r \in DOMAIN rooms \ {room} : rooms'[r] = rooms[r]
               /\ events'[avatar].position = events[avatar].position
               /\ avatarId' = events[avatar].id
               /\ ready'
               /\ Len(tasks'[t].stack) = 2
               /\ tasks'[t].stack[1].ev = avatar
               /\ tasks'[t].stack[1].pc = "title"
               /\ tasks'[t].stack[2].kind = "start"]_vars

(* The opening touch of the avatar has just been entered. *)
C13_Witness ==
    /\ ready /\ avatarId = 1
    /\ rooms[0].events = <<Ref(2), Ref(3), Ref(4), Ref(5), Ref(6), Ref(9), Ref(1)>>
    /\ \E t \in Slots :
          /\ Len(tasks[t].stack) = 2
          /\ tasks[t].stack[1].ev = Ref(1) /\ tasks[t].stack[1].pc = "title"
          /\ tasks[t].stack[2].kind = "start"

----------------------------------------------------------------------------
(* Properties of the standard touch pipeline: player.js 373-483.           *)

(* Task t is about to run the step pc of a standard touch. *)
StdStep(t) ==
    /\ tasks[t].st = "run"
    /\ Top(World, t).kind = "std"

(* The step a standard touch goes on to when it is not ended by the step. *)
FollowingSteps(pc) ==
    CASE pc = "title"   -> {"says"}
      [] pc = "says"    -> {"exit"}
      [] pc = "exit"    -> {"remove"}
      [] pc = "remove"  -> {"ending"}
      [] pc = "ending"  -> {"restart", "misc"}
      [] pc = "restart" -> {"misc"}
      [] OTHER          -> {}

(* The texts the dialogue step of the event shows. *)
DialogueTexts(e) ==
    {events[e].fields[i].data.text : i \in {j \in DOMAIN events[e].fields :
        events[e].fields[j].type = "dialogue" /\ events[e].fields[j].key \in {"say", "title"}}}

PositionsKept == \A e \in DOMAIN events \cap DOMAIN events' : events'[e].position = events[e].position

(* C14: a standard touch goes through title, say lines, exit, remove,      *)
(* ending and misc in that order, one step at a time; the collections and  *)
(* positions change in the exit and remove steps only; and when the exit   *)
(* or the remove step runs, no text of the event's dialogue step is left   *)
(* in the dialogue box.                                                    *)
C14_PipelineOrder ==
    [][\A t \in Slots :
        (StdStep(t) /\ Run(t)) =>
            LET frame == Top(World, t)
                depth == Len(tasks[t].stack)
            IN /\ Len(tasks'[t].stack) <= depth
               /\ Len(tasks'[t].stack) = depth =>
                     tasks'[t].stack[1].pc \in FollowingSteps(frame.pc)
               /\ frame.pc \notin {"exit", "remove"} => (rooms' = rooms /\ PositionsKept)
               /\ frame.pc \in {"exit", "remove"} =>
                     \A i \in DOMAIN dialoguePlayer.pages :
                         dialoguePlayer.pages[i].text[1] \notin DialogueTexts(frame.ev)]_vars

(* The touch of the door waits for its line to be dismissed: the avatar is *)
(* still in the door's room.                                               *)
C14_Witness ==
    /\ \E t \in Slots :
          /\ tasks[t].st = "dlg"
          /\ Top(World, t).kind = "std" /\ Top(World, t).ev = Ref(3) /\ Top(World, t).pc = "exit"
    /\ dialoguePlayer.pages # <<>> /\ dialoguePlayer.pages[1].text = <<"o">>
    /\ Avatar # NoRef /\ getLocationOfEvent(World, Avatar) = [room |-> 0, position |-> <<0, 1>>]

(* Task t is about to run the exit step of an event that has an exit. *)
ExitStep(t) ==
    /\ StdStep(t)
    /\ Top(World, t).pc = "exit"
    /\ \E i \in DOMAIN events[Top(World, t).ev].fields :
          /\ events[Top(World, t).ev].fields[i].key = "exit"
          /\ events[Top(World, t).ev].fields[i].type = "location"

ExitOf(e) == oneField(events[e], "exit", "location").data.location

(* C15: the exit step puts the avatar last in the exit room's collection,  *)
(* at the exit position, and in no other room; the touched event stays in  *)
(* its room and at its position.                                           *)
C15_ExitMovesAvatar ==
    [][\A t \in Slots :
        (ExitStep(t) /\ Run(t)) =>
            LET event == Top(World, t).ev
                exit == ExitOf(event)
            IN /\ Avatar # NoRef
               /\ rooms'[exit.room].events # <<>>
               /\ rooms'[exit.room].events[Len(rooms'[exit.room].events)] = Avatar
               /\ events'[Avatar].position = exit.position
               /\ \A r \in DOMAIN rooms \ {exit.room} : Avatar \notin Range(rooms'[r].events)
               /\ event # Avatar =>
                     /\ events'[event].position = events[event].position
                     /\ \A r \in DOMAIN rooms :
                           Without(rooms'[r].events, Avatar) = Without(rooms[r].events, Avatar)]_vars

(* The door's exit has just put the avatar in the other room. *)
C15_Witness ==
    /\ \E t \in Slots :
          /\ tasks[t].stack # <<>>
          /\ Top(World, t).kind = "std" /\ Top(World, t).ev = Ref(3) /\ Top(World, t).pc = "remove"
    /\ Avatar # NoRef
    /\ getLocationOfEvent(World, Avatar) = [room |-> 1, position |-> <<GridSize - 1, GridSize - 1>>]
    /\ getLocationOfEvent(World, Ref(3)) = [room |-> 0, position |-> <<0, 1>>]

IsOneTime(e) ==
    \E i \in DOMAIN e.fields : e.fields[i].key = "one-time" /\ e.fields[i].type = "tag"

IsScripted(e) ==
    \E i \in DOMAIN e.fields : e.fields[i].key = "touch" /\ e.fields[i].type = "javascript"

(* The ids of the project's one-time events that have no touch script. *)
OneTimeIds ==
    {stateBackup.events[e].id : e \in {x \in DOMAIN stateBackup.events :
        IsOneTime(stateBackup.events[x]) /\ ~IsScripted(stateBackup.events[x])}}

(* The one-time event id of the project is in no room's collection: its    *)
(* touch has discarded it.                                                 *)
Discarded(id) ==
    /\ id \in OneTimeIds
    /\ \A e \in RoomRefs(World) : events[e].id # id

(* The step completes the reload of a restart. *)
Reloaded == \E t \in Slots : tasks[t].st = "copy" /\ tasks'[t].st # "copy"

(* Task t is about to run the remove step of a one-time event. *)
RemoveStep(t) ==
    /\ StdStep(t)
    /\ Top(World, t).pc = "remove"
    /\ IsOneTime(events[Top(World, t).ev])

(* C16 as first stated: a one-time event that its touch has discarded is   *)
(* found in no room ever after.                                            *)
C16_Original ==
    [][\A id \in OneTimeIds : Discarded(id) => Discarded(id)']_vars

(* C16: the remove step of a one-time event leaves it in no room's         *)
(* collection, whether or not it has an exit or an ending; an event object *)
(* that is in no room is never in a room again; a discarded one-time event *)
(* stays absent until a restart reloads the project; and a move touches    *)
(* only an event of a room.                                                *)
C16_OneTime ==
    [][/\ \A t \in Slots :
             (RemoveStep(t) /\ Run(t)) => Top(World, t).ev \notin RoomRefs(World)'
       /\ ~Reloaded =>
             /\ \A e \in DOMAIN events \cap DOMAIN events' :
                   e \notin RoomRefs(World) => e \notin RoomRefs(World)'
             /\ \A id \in OneTimeIds : Discarded(id) => Discarded(id)'
       /\ lastCall'.op = "move" =>
             (lastCall'.event = NoRef \/ lastCall'.event \in RoomRefs(World))]_vars

(* The one-time door of room 1 has brought the avatar back and is gone. *)
C16_Witness ==
    /\ Discarded(7)
    /\ \A t \in Slots : tasks[t] = Idle
    /\ Avatar # NoRef
    /\ getLocationOfEvent(World, Avatar) = [room |-> 0, position |-> <<2, 0>>]

(* The ending text of the event. *)
EndingTexts(e) ==
    {events[e].fields[i].data.text : i \in {j \in DOMAIN events[e].fields :
        events[e].fields[j].key = "ending" /\ events[e].fields[j].type = "dialogue"}}

CopiesInFlight == {t \in Slots : tasks[t].st = "copy"}

(* C17: the ending step queues the ending text and suspends, leaving ready *)
(* and the project as they were; the restart is called in a later step,    *)
(* when no page of the ending text is in the dialogue box, and that step   *)
(* clears ready and the dialogue box and leaves the reload under way.      *)
C17_EndingThenRestart ==
    [][\A t \in Slots :
        (StdStep(t) /\ Run(t)) =>
            LET frame == Top(World, t)
            IN /\ (frame.pc = "ending" /\ EndingTexts(frame.ev) # {}) =>
                     /\ tasks'[t].st = "say"
                     /\ tasks'[t].stack[1].pc = "restart"
                     /\ \E i \in DOMAIN dialoguePlayer'.pages :
                           dialoguePlayer'.pages[i].text[1] \in EndingTexts(frame.ev)
                     /\ ready' = ready /\ rooms' = rooms
                     /\ CopiesInFlight' = CopiesInFlight
               /\ frame.pc = "restart" =>
                     /\ \A i \in DOMAIN dialoguePlayer.pages :
                           dialoguePlayer.pages[i].text[1] \notin EndingTexts(frame.ev)
                     /\ ~ready'
                     /\ dialoguePlayer'.pages = <<>>
                     /\ Cardinality(CopiesInFlight') = Cardinality(CopiesInFlight) + 1
               /\ frame.pc \notin {"restart"} => CopiesInFlight' = CopiesInFlight]_vars

(* The ending was dismissed and the restart has begun. *)
C17_Witness ==
    /\ CopiesInFlight # {}
    /\ ~ready /\ dialoguePlayer.pages = <<>>
    /\ \E t \in Slots :
          /\ tasks[t].stack # <<>>
          /\ Top(World, t).kind = "std" /\ Top(World, t).ev = Ref(8) /\ Top(World, t).pc = "misc"

(* The project data is the snapshot taken at load. *)
IsSnapshot(rs, es) ==
    /\ rs = stateBackup.rooms
    /\ \A e \in DOMAIN stateBackup.events : e \in DOMAIN es /\ es[e] = stateBackup.events[e]

----------------------------------------------------------------------------
(* Properties of the say lines: player.js 391-429.  The talking event is   *)
(* event 2 of SpecSays; log.lines is what its touches have shown, in       *)
(* order.                                                                  *)

TalkerLines ==
    LET fields == events[Ref(2)].fields
        RECURSIVE From(_)
        From(i) == IF i > Len(fields) THEN <<>>
                   ELSE IF fields[i].key = "say" /\ fields[i].type = "dialogue"
                        THEN <<fields[i].data.text>> \o From(i + 1)
                        ELSE From(i + 1)
    IN From(1)

TalkerMode ==
    LET fields == events[Ref(2)].fields
        modes == {i \in DOMAIN fields : fields[i].key = "say-mode" /\ fields[i].type = "text"}
    IN IF modes = {} THEN "unset" ELSE fields[CHOOSE i \in modes : \A j \in modes : i <= j].data.text

Min(a, b) == IF a <= b THEN a ELSE b

(* C19: with a say-mode other than cycle and shuffle and N >= 1 say lines, *)
(* the k-th touch shows line k for k <= N and line N from then on.         *)
C19_Sequential ==
    (log.on /\ TalkerMode \notin {"cycle", "shuffle"} /\ TalkerLines # <<>>) =>
        \A k \in DOMAIN log.lines : log.lines[k] = TalkerLines[Min(k, Len(TalkerLines))]

(* Lines a, b: four touches have shown a, b, b, b. *)
C19_Witness ==
    /\ log.on /\ TalkerMode = "unset" /\ TalkerLines = <<"a", "b">>
    /\ log.lines = <<"a", "b", "b", "b">>

(* The k-th block of n touches, as far as it has been shown. *)
Block(k, n) == SubSeq(log.lines, (k - 1) * n + 1, Min(k * n, Len(log.lines)))

Blocks(n) == 1..((Len(log.lines) + n - 1) \div n)

(* C20: in cycle and shuffle mode every block of N touches shows each line *)
(* once; in cycle mode every block is in field order.                      *)
C20_CycleShuffle ==
    (log.on /\ TalkerMode \in {"cycle", "shuffle"} /\ TalkerLines # <<>>) =>
        LET n == Len(TalkerLines)
        IN \A k \in Blocks(n) :
              /\ \A i \in DOMAIN Block(k, n) : Block(k, n)[i] \in Range(TalkerLines)
              /\ \A i, j \in DOMAIN Block(k, n) : Block(k, n)[i] = Block(k, n)[j] => i = j
              /\ TalkerMode = "cycle" => Block(k, n) = SubSeq(TalkerLines, 1, Len(Block(k, n)))

(* Shuffle mode, lines a, b: two blocks in different orders. *)
C20_Witness ==
    /\ log.on /\ TalkerMode = "shuffle" /\ TalkerLines = <<"a", "b">>
    /\ log.lines = <<"b", "a", "a", "b">>

(* The texts of the event's say lines, in field order. *)
SayLinesOf(e) ==
    LET RECURSIVE From(_)
        From(i) == IF i > Len(e.fields) THEN <<>>
                   ELSE IF e.fields[i].key = "say" /\ e.fields[i].type = "dialogue"
                        THEN <<e.fields[i].data.text>> \o From(i + 1)
                        ELSE From(i + 1)
    IN From(1)

ModeOf(e) ==
    LET modes == {i \in DOMAIN e.fields : e.fields[i].key = "say-mode" /\ e.fields[i].type = "text"}
    IN IF modes = {} THEN "unset" ELSE e.fields[CHOOSE i \in modes : \A j \in modes : i <= j].data.text

Count(seq, v) == Cardinality({i \in DOMAIN seq : seq[i] = v})

SameLines(s1, s2) ==
    /\ Len(s1) = Len(s2)
    /\ \A v \in Range(s1) \cup Range(s2) : Count(s1, v) = Count(s2, v)

(* Task t is about to run the say lines of a standard touch. *)
SaysStep(t) ==
    /\ StdStep(t)
    /\ Top(World, t).pc = "says"

(* The lines the step has shown. *)
Shown == SubSeq(log'.lines, Len(log.lines) + 1, Len(log'.lines))

(* C21: the first trigger of an event captures its say lines with cursor 0 *)
(* (permuted in shuffle mode, in field order otherwise); every trigger     *)
(* shows the one line at the cursor and advances the cursor; when the      *)
(* cursor reaches the length, the record is kept with the cursor on the    *)
(* last index unless the mode is cycle or shuffle, which drop the record.  *)
C21_RecordLifecycle ==
    [][\A t \in Slots :
        (SaysStep(t) /\ Run(t)) =>
            LET ev == Top(World, t).ev
                before == events[ev]
                after == events'[ev]
                lines == SayLinesOf(before)
                n == Len(lines)
                mode == ModeOf(before)
                cursor == IF before.saysDefined THEN before.sayProgress ELSE 0
            IN n >= 1 =>
                 /\ cursor < n
                 /\ Len(Shown) = 1
                 /\ before.saysDefined => Shown[1] = before.says[cursor + 1]
                 /\ ~before.saysDefined =>
                       IF mode = "shuffle" THEN Shown[1] \in Range(lines) ELSE Shown[1] = lines[1]
                 /\ cursor + 1 < n =>
                       /\ after.saysDefined
                       /\ after.sayProgress = cursor + 1
                       /\ SameLines(after.says, lines)
                       /\ after.says[cursor + 1] = Shown[1]
                       /\ before.saysDefined => after.says = before.says
                       /\ mode # "shuffle" => after.says = lines
                 /\ cursor + 1 >= n =>
                       IF mode \in {"cycle", "shuffle"} THEN ~after.saysDefined
                       ELSE /\ after.saysDefined
                            /\ after.sayProgress = n - 1
                            /\ after.says = lines]_vars

(* Shuffle mode, lines a, b: after b, a the record was dropped, and the    *)
(* third touch has captured the lines again and shown its first.           *)
C21_Witness ==
    /\ log.on /\ TalkerMode = "shuffle" /\ TalkerLines = <<"a", "b">>
    /\ log.lines = <<"b", "a", "b">>
    /\ events[Ref(2)].saysDefined
    /\ events[Ref(2)].says = <<"b", "a">>
    /\ events[Ref(2)].sayProgress = 1

(* C22: the say step of an event without say lines shows nothing and       *)
(* leaves the dialogue box as it was; the box being empty, the touch goes  *)
(* on to its exit step without suspending.                                 *)
C22_EmptySayList ==
    [][\A t \in Slots :
        (SaysStep(t) /\ SayLinesOf(events[Top(World, t).ev]) = <<>> /\ Run(t)) =>
            /\ Shown = <<>>
            /\ dialoguePlayer' = dialoguePlayer
            /\ dialoguePlayer.pages = <<>> =>
                  /\ tasks'[t].st = "run"
                  /\ Len(tasks'[t].stack) = Len(tasks[t].stack)
                  /\ tasks'[t].stack[1].ev = Top(World, t).ev
                  /\ tasks'[t].stack[1].pc = "exit"]_vars

(* The talking event has no line, in cycle mode: its touch has passed the  *)
(* say step and is about to run its exit step.                             *)
C22_Witness ==
    /\ TalkerLines = <<>> /\ TalkerMode = "cycle"
    /\ log.on /\ log.lines = <<>>
    /\ dialoguePlayer.pages = <<>>
    /\ \E t \in Slots :
          /\ tasks[t].st = "run"
          /\ Top(World, t).kind = "std" /\ Top(World, t).ev = Ref(2) /\ Top(World, t).pc = "exit"

----------------------------------------------------------------------------
(* Properties of the dialogue waiter: player.js 114-118, 146-156.          *)

(* The next call of the running script of task t is await DIALOGUE. *)
AwaitsDialogue(t) ==
    /\ tasks[t].st = "run"
    /\ Top(World, t).kind = "script"
    /\ Top(World, t).ip <= Len(Script(Top(World, t).code))
    /\ Script(Top(World, t).code)[Top(World, t).ip].op = "DIALOGUE"

(* The calls suspended on the dialogue waiter. *)
Suspended == {t \in Slots : tasks[t].st = "dlg"}

(* C23: a script awaiting the dialogue waiter goes on at once when the box *)
(* is empty and is suspended when it is not; a suspended caller is resumed *)
(* only by the step that empties the box, which resumes every suspended    *)
(* caller; and no caller is left suspended on an empty box.                *)
C23_DialogueWaiter ==
    [][/\ \A t \in Slots :
             (AwaitsDialogue(t) /\ Run(t)) =>
                 /\ dialoguePlayer' = dialoguePlayer
                 /\ Len(tasks'[t].stack) = Len(tasks[t].stack)
                 /\ tasks'[t].stack[1].ip = tasks[t].stack[1].ip + 1
                 /\ tasks'[t].st = IF dialoguePlayer.pages = <<>> THEN "run" ELSE "dlg"
       /\ \A t \in Suspended :
             tasks'[t].st # "dlg" =>
                 /\ dialoguePlayer.pages # <<>>
                 /\ dialoguePlayer'.pages = <<>>
                 /\ tasks'[t] = [tasks[t] EXCEPT !.st = "run"]
                 /\ \A u \in Suspended : tasks'[u].st = "run"
       /\ Suspended' # {} => dialoguePlayer'.pages # <<>>]_vars

(* The script and the touch it started were both suspended on the waiter;  *)
(* the last page was dismissed and both are resumed, the script for the    *)
(* second time it awaited.                                                 *)
C23_Witness ==
    /\ dialoguePlayer.pages = <<>>
    /\ \E t, u \in Slots :
          /\ t # u
          /\ tasks[t].st = "run" /\ tasks[u].st = "run"
          /\ Top(World, t).kind = "script" /\ Top(World, t).code = "wait" /\ Top(World, t).ip = 5
          /\ Top(World, u).kind = "std" /\ Top(World, u).ev = Ref(2) /\ Top(World, u).pc = "exit"

----------------------------------------------------------------------------
(* Properties of the project data: player.js 8-100, 503-523.               *)

(* C24: in every state the layout calls lead to, cellIsSolid of a room and *)
(* a cell of the grid holds exactly when the cell's wallmap entry is       *)
(* positive or an event of that room's collection at that cell has a       *)
(* solid tag.                                                              *)
C24_CellIsSolid ==
    \A room \in DOMAIN rooms : \A x \in Cells : \A y \in Cells :
        cellIsSolid(World, room, x, y) <=> SolidCell(room, x, y)

(* The solid event was moved from (0, 0) of room 0, where an event with a  *)
(* solid field that is no tag has been created, to (1, 0): (0, 0) is no    *)
(* longer solid and (1, 0) is.                                             *)
C24_Witness ==
    /\ lastCall.op = "MOVE" /\ lastCall.event = Ref(1) /\ lastCall.exc = ""
    /\ rooms[0].events = <<Ref(3), Ref(1)>>
    /\ events[Ref(1)].position = <<1, 0>>
    /\ events[Ref(3)].position = <<0, 0>>
    /\ events[Ref(3)].fields = <<Field("solid", "text", Text("true"))>>
    /\ ~cellIsSolid(World, 0, 0, 0)
    /\ cellIsSolid(World, 0, 1, 0)

(* The step is a call of MOVE, with the arguments lastCall records. *)
MoveEventCalled == lastCall'.op = "MOVE" /\ MOVE(lastCall'.event, lastCall'.location)

(* The rooms whose collection holds the event. *)
Holding(e) == {r \in DOMAIN rooms : \E i \in DOMAIN rooms[r].events : rooms[r].events[i] = e}

(* C25: relocating an event of a room to a location of an existing room    *)
(* succeeds, takes the event out of the collection it was in, makes it the *)
(* last element of the destination room's collection (also when that is    *)
(* the room it was in), sets its position to the location's, and leaves    *)
(* every other event, and the order of the others in each room, as it was. *)
C25_Relocate ==
    [][(MoveEventCalled /\ lastCall'.location.room \in DOMAIN rooms /\ Holding(lastCall'.event) # {}) =>
            LET e == lastCall'.event
                dest == lastCall'.location.room
            IN /\ lastCall'.exc = ""
               /\ rooms'[dest].events = Append(Without(rooms[dest].events, e), e)
               /\ \A r \in DOMAIN rooms \ {dest} : rooms'[r].events = Without(rooms[r].events, e)
               /\ DOMAIN events' = DOMAIN events
               /\ events'[e] = [events[e] EXCEPT !.position = lastCall'.location.position]
               /\ \A o \in DOMAIN events \ {e} : events'[o] = events[o]]_vars

(* The solid event, created before the two others of room 0, was relocated *)
(* to the cell of the room it was in: it is the last of the collection.    *)
C25_Witness ==
    /\ lastCall.op = "MOVE" /\ lastCall.event = Ref(1) /\ lastCall.location = At(0, 0, 0)
    /\ lastCall.exc = ""
    /\ rooms[0].events = <<Ref(2), Ref(3), Ref(1)>>
    /\ events[Ref(1)].position = <<0, 0>>

(* The number of places the event has in the rooms' collections. *)
Places(e) ==
    Cardinality(UNION {{<<r, i>> : i \in {j \in DOMAIN rooms[r].events : rooms[r].events[j] = e}} :
                          r \in DOMAIN rooms})

(* The events of the project have distinct ids and one place each. *)
Owned ==
    /\ \A e \in DOMAIN events : Places(e) = 1
    /\ \A e1 \in DOMAIN events : \A e2 \in DOMAIN events : events[e1].id = events[e2].id => e1 = e2

(* The events that are in some room's collection. *)
InRooms == {e \in DOMAIN events : Holding(e) # {}}

(* C26: before and after every call the events of the project have         *)
(* pairwise distinct ids and each is in one room's collection, once; a     *)
(* relocation takes no event out of the project and brings none in, a      *)
(* discard takes out the event it is given and no other, and the editor's  *)
(* create and paste bring in one event with an id no other event has.      *)
C26_Ownership ==
    [][/\ Owned /\ Owned'
       /\ (lastCall'.op = "MOVE" /\ lastCall'.exc = "") => InRooms' = InRooms
       /\ lastCall'.op = "REMOVE" => InRooms' = InRooms \ {lastCall'.event}
       /\ lastCall'.op \in {"createEvent", "pasteSelectedEvent"} =>
             /\ lastCall'.event \notin InRooms
             /\ InRooms' = InRooms \cup {lastCall'.event}
             /\ \A e \in InRooms : events'[e].id = events[e].id /\ events[e].id # events'[lastCall'.event].id
       /\ lastCall'.op = "copyFrom" => (rooms' = stateBackup.rooms /\ events' = stateBackup.events)]_vars

(* The second event was discarded and the copy of the first was pasted     *)
(* into its room: the copy has the id that had become free.                *)
C26_Witness ==
    /\ lastCall.op = "pasteSelectedEvent" /\ lastCall.event = Ref(2)
    /\ rooms[0].events = <<Ref(1)>>
    /\ rooms[1].events = <<Ref(2)>>
    /\ events[Ref(2)].id = 2
    /\ events[Ref(2)].fields = events[Ref(1)].fields
    /\ Owned

(* The locations of the rooms' cells. *)
GridLocations == {At(r, x, y) : r \in DOMAIN rooms, x \in Cells, y \in Cells}

(* The event is the first of its room's collection at its cell. *)
FirstAtItsCell(e) ==
    \A r \in Holding(e) : \A i \in DOMAIN rooms[r].events :
        (rooms[r].events[i] = e) =>
            \A j \in 1..(i - 1) : events[rooms[r].events[j]].position # events[e].position

(* C27 as first stated: the event at the location of an event of a room is *)
(* that event, and the location of the event at a location is that         *)
(* location.                                                               *)
C27_Original ==
    /\ \A e \in InRooms : getEventAtLocation(World, getLocationOfEvent(World, e)) = e
    /\ \A location \in GridLocations :
          getEventAtLocation(World, location) # NoRef =>
              getLocationOfEvent(World, getEventAtLocation(World, location)) = location

(* C27: the location of the event at a location is that location; the     *)
(* event at the location of an event of a room is an event of the same     *)
(* location, and it is that event exactly when no event before it in the   *)
(* room's collection is at its cell.                                       *)
C27_Locators ==
    /\ \A location \in GridLocations :
          getEventAtLocation(World, location) # NoRef =>
              getLocationOfEvent(World, getEventAtLocation(World, location)) = location
    /\ \A e \in InRooms :
          LET found == getEventAtLocation(World, getLocationOfEvent(World, e))
          IN /\ found \in InRooms
             /\ getLocationOfEvent(World, found) = getLocationOfEvent(World, e)
             /\ found = e <=> FirstAtItsCell(e)

(* The second event was relocated to the cell of the first: the event at   *)
(* its location is the first event.                                        *)
C27_Witness ==
    /\ lastCall.op = "MOVE" /\ lastCall.event = Ref(2) /\ lastCall.exc = ""
    /\ rooms[0].events = <<Ref(1), Ref(2)>>
    /\ getLocationOfEvent(World, Ref(2)) = At(0, 0, 0)
    /\ getLocationOfEvent(World, Ref(1)) = At(0, 0, 0)
    /\ getEventAtLocation(World, At(0, 0, 0)) = Ref(1)

----------------------------------------------------------------------------
(* Properties of the field accessors and of SET_FIELDS: player.js 8-41,    *)
(* 503-523, 538.                                                           *)

(* The field has the key and, a type being given, the type. *)
Matching(field, key, type) == field.key = key /\ (type = Undefined \/ field.type = type)

(* The fields of the list that match, or that do not, in the list's order. *)
RECURSIVE Sublist(_, _, _, _)
Sublist(fields, key, type, matching) ==
    IF fields = <<>> THEN <<>>
    ELSE IF Matching(Head(fields), key, type) = matching
         THEN <<Head(fields)>> \o Sublist(Tail(fields), key, type, matching)
         ELSE Sublist(Tail(fields), key, type, matching)

(* C28: allFields gives, in field order, the fields with the key and, a    *)
(* type being given, the type; oneField gives the first of them, or        *)
(* undefined when there is none; eventIsTagged holds exactly when a field  *)
(* has the key and the type tag, whatever it holds.                        *)
C28_FieldAccessors ==
    \A e \in DOMAIN events : \A key \in {"solid", "say", "graphic"} : \A type \in Types \cup {"dialogue"} :
        LET by == Sublist(events[e].fields, key, type, TRUE)
        IN /\ allFields(events[e], key, type) = by
           /\ oneField(events[e], key, type) = IF by = <<>> THEN NoField ELSE by[1]
           /\ eventIsTagged(events[e], key) <=>
                 \E i \in DOMAIN events[e].fields :
                     events[e].fields[i].key = key /\ events[e].fields[i].type = "tag"

(* The event has a solid field of type text before its two solid tags, the *)
(* first of which holds false: it is tagged solid, its first solid field   *)
(* is the text and its first solid tag the one that holds false.           *)
C28_Witness ==
    /\ lastCall.op = "SET_FIELDS" /\ lastCall.name = "solid" /\ lastCall.type = "tag"
    /\ events[Ref(1)].fields = <<Field("solid", "text", Text("true")),
                                 Field("solid", "tag", Text("false")),
                                 Field("solid", "tag", Text("true"))>>
    /\ eventIsTagged(events[Ref(1)], "solid")
    /\ oneField(events[Ref(1)], "solid", Undefined).type = "text"
    /\ oneField(events[Ref(1)], "solid", "tag").data.text = "false"
    /\ oneField(events[Ref(1)], "say", Undefined) = NoField

(* The step is a call of SET_FIELDS, with the arguments lastCall records. *)
SetFieldsCalled ==
    /\ lastCall'.op = "SET_FIELDS"
    /\ SET_FIELDS(lastCall'.event, lastCall'.name, lastCall'.type, lastCall'.values)

(* C29: after SET_FIELDS(event, key, type, ...values) the fields of the    *)
(* event that match key and type are one new field per value, in the order *)
(* of the values; the fields that do not match are those of before, in     *)
(* their order; without values no field matches; nothing else of the event *)
(* changes; and the same call made again leaves the same field list.       *)
C29_SetFields ==
    [][SetFieldsCalled =>
            LET e == lastCall'.event
                key == lastCall'.name
                type == lastCall'.type
                values == lastCall'.values
                before == events[e].fields
                after == events'[e].fields
                once == replaceFields(World, e, key, type, values)
            IN /\ Sublist(after, key, type, TRUE) =
                     [i \in 1..Len(values) |-> [key |-> key, type |-> type, data |-> values[i]]]
               /\ Sublist(after, key, type, FALSE) = Sublist(before, key, type, FALSE)
               /\ values = <<>> => \A i \in DOMAIN after : ~Matching(after[i], key, type)
               /\ events'[e] = [events[e] EXCEPT !.fields = after]
               /\ rooms' = rooms
               /\ replaceFields(once, e, key, type, values).events[e].fields = after]_vars

(* The solid tags of the event were replaced by two new ones, behind its   *)
(* solid field of type text, which stays.                                  *)
C29_Witness ==
    /\ lastCall.op = "SET_FIELDS" /\ lastCall.name = "solid" /\ lastCall.type = "tag"
    /\ lastCall.values = <<Text("false"), Text("true")>>
    /\ events[Ref(1)].fields = <<Field("solid", "text", Text("true")),
                                 Field("solid", "tag", Text("false")),
                                 Field("solid", "tag", Text("true"))>>

----------------------------------------------------------------------------
(* Properties of TOUCH called by a script: player.js 546, 330-348.         *)

(* The running script of task t is about to call TOUCH. *)
CallsTouch(t) ==
    /\ tasks[t].st = "run"
    /\ tasks[t].stack # <<>>
    /\ Top(World, t).kind = "script"
    /\ Top(World, t).ip <= Len(Script(Top(World, t).code))
    /\ Script(Top(World, t).code)[Top(World, t).ip].op \in {"TOUCH", "START"}

(* C30: a TOUCH call of a script enters touch on the event it is given,    *)
(* its own or another, whatever busy and the dialogue box are: the touch   *)
(* becomes the innermost call of the calling task when it is awaited, and  *)
(* of a task of its own when it is not, next to the touches in flight.     *)
C30_ScriptTouch ==
    [][\A t \in Slots :
          (CallsTouch(t) /\ Run(t)) =>
              LET frame == Top(World, t)
                  cmd == Script(frame.code)[frame.ip]
                  target == Resolve(World, frame, cmd)
                  idle == {u \in Slots : tasks[u].st = "idle"}
                  into == IF cmd.op = "TOUCH" THEN t
                          ELSE CHOOSE u \in idle : \A v \in idle : u <= v
                  caller == <<[frame EXCEPT !.ip = frame.ip + 1]>> \o Tail(tasks[t].stack)
              IN target # NoRef =>
                    /\ tasks'[into].st = "run"
                    /\ Head(tasks'[into].stack).ev = target
                    /\ Head(tasks'[into].stack).ip = 1
                    /\ Head(tasks'[into].stack).kind = IF HasScript(target) THEN "script" ELSE "std"
                    /\ Tail(tasks'[into].stack) = IF cmd.op = "TOUCH" THEN caller ELSE <<>>
                    /\ cmd.op = "START" => tasks'[t] = [st |-> "run", stack |-> caller]
                    /\ \A u \in Slots \ {t, into} : tasks'[u] = tasks[u]
                    /\ busy' = busy
                    /\ dialoguePlayer' = dialoguePlayer]_vars

(* The script of an event has touched its own event while busy was set and *)
(* its line was on screen: the touch of the script runs inside the touch   *)
(* of the script inside move.                                              *)
C30_Witness ==
    /\ busy
    /\ dialoguePlayer.pages # <<>>
    /\ \E t \in Slots :
          /\ Len(tasks[t].stack) = 3
          /\ tasks[t].stack[1].kind = "script" /\ tasks[t].stack[1].ip = 1
          /\ tasks[t].stack[2].kind = "script" /\ tasks[t].stack[2].ip = 3
          /\ tasks[t].stack[1].ev = tasks[t].stack[2].ev
          /\ tasks[t].stack[3].kind = "move"

----------------------------------------------------------------------------
(* Properties of update: player.js 224-239.                                *)

(* C31: update(dt) when ready adds dt to the accumulated time, counts one  *)
(* frame for every full 400 ms in it and keeps the remainder, whether or   *)
(* not a dialogue is active, and emits one render signal; when not ready   *)
(* it changes nothing.                                                     *)
C31_Update ==
    [][lastCall'.op = "update" =>
          IF ready
          THEN /\ time' \in 0..(FrameMs - 1)
               /\ frameCount' = frameCount + ((time + lastCall'.dt) \div FrameMs)
               /\ time' = (time + lastCall'.dt) % FrameMs
               /\ lastCall'.rendered
          ELSE /\ UNCHANGED <<rooms, events, stateBackup, avatarId, ready, busy, error,
                              dialoguePlayer, tasks, time, frameCount>>
               /\ ~lastCall'.rendered]_vars

----------------------------------------------------------------------------
(* Properties of the sequencing record between touches: player.js 403-426. *)

(* C32: an event that carries a record with a non-empty captured list has  *)
(* its cursor on an index of that list, in every say-mode and after any    *)
(* number of touches.                                                      *)
C32_CursorInRange ==
    \A e \in DOMAIN events :
        (events[e].saysDefined /\ Len(events[e].says) > 0) =>
            /\ events[e].sayProgress >= 0
            /\ events[e].sayProgress < Len(events[e].says)

(* Sequential mode, lines a, b: the third touch has shown b again and the  *)
(* cursor is still on the last index.                                      *)
C32_Witness ==
    /\ log.on /\ TalkerMode = "sequential" /\ TalkerLines = <<"a", "b">>
    /\ log.lines = <<"a", "b", "b">>
    /\ events[Ref(2)].saysDefined
    /\ events[Ref(2)].says = <<"a", "b">>
    /\ events[Ref(2)].sayProgress = 1

----------------------------------------------------------------------------
(* Properties of the sequencing record under SET_FIELDS: player.js         *)
(* 399-426, 514-523.                                                       *)

(* The step is the say step of a standard touch of event e. *)
SaysStepOf(e) == \E t \in Slots : SaysStep(t) /\ Top(World, t).ev = e /\ Run(t)

(* The record of event e is there after the step, with the same lines. *)
RecordKept(e) ==
    /\ e \in DOMAIN events'
    /\ events'[e].saysDefined
    /\ events'[e].says = events[e].says

(* The statement of C33 as it stands: in the sessions of an event whose    *)
(* say-mode starts as sequential, a captured record is kept by every step  *)
(* but the reload of a restart, whatever SET_FIELDS replaces.              *)
C33_Original ==
    [][\A e \in DOMAIN events :
          (events[e].saysDefined /\ ~Reloaded) => RecordKept(e)]_vars

(* C33: replacing the say fields or the say-mode of an event with          *)
(* SET_FIELDS leaves its captured record as it is, and a later standard    *)
(* touch shows the captured line at the cursor (nothing for a captured     *)
(* empty list) whatever the fields hold by then.  The record is discarded  *)
(* by the reload of a restart and by the touch that shows the last         *)
(* captured line while the say-mode field reads cycle or shuffle; while    *)
(* that field reads anything else only the reload discards it.             *)
C33_RecordUnderSetFields ==
    [][\A e \in DOMAIN events :
          events[e].saysDefined =>
              LET before == events[e]
                  n == Len(before.says)
                  last == n > 0 /\ before.sayProgress + 1 >= n
              IN /\ (~Reloaded /\ ~RecordKept(e)) =>
                       /\ last
                       /\ ModeOf(before) \in {"cycle", "shuffle"}
                       /\ SaysStepOf(e)
                 /\ SaysStepOf(e) =>
                       /\ Shown = IF n > 0 THEN <<before.says[before.sayProgress + 1]>>
                                  ELSE <<>>
                       /\ (last /\ ModeOf(before) \in {"cycle", "shuffle"})
                             => ~events'[e].saysDefined
                       /\ n = 0 => events'[e] = before]_vars

(* The say lines of the event were replaced by the line x after its lines  *)
(* a, b were captured; the touch after that has shown b, which is on       *)
(* screen.                                                                 *)
C33_Witness ==
    /\ SayLinesOf(events[Ref(2)]) = <<"x">>
    /\ events[Ref(2)].saysDefined
    /\ events[Ref(2)].says = <<"a", "b">>
    /\ events[Ref(2)].sayProgress = 1
    /\ log.lines = <<"a", "b", "b">>
    /\ dialoguePlayer.pages # <<>>
    /\ dialoguePlayer.pages[1].text = <<"b">>

----------------------------------------------------------------------------
(* Properties of the avatar: player.js 198-216, 302-306, 360-365, 450-454. *)

(* C34: whenever ready is true the recorded avatar id is the id of one     *)
(* event, which is in one room's collection, once.                         *)
C34_AvatarInRoom ==
    ready =>
        /\ Cardinality({e \in InRooms : events[e].id = avatarId}) = 1
        /\ \A e \in InRooms : events[e].id = avatarId => Places(e) = 1

----------------------------------------------------------------------------
(* Properties of the move guard's release: player.js 297-348, 373-384.     *)

(* C35: the player dismissing every dialogue and every DELAY elapsing,     *)
(* busy set by an accepted move is false again later: it is never left     *)
(* true once no move is in flight.                                         *)
C35_BusyReleased == busy ~> ~busy

----------------------------------------------------------------------------
(* Properties of a relocation that fails: player.js 86-100.                *)

(* C36: a call of moveEvent that fails, its destination room missing or    *)
(* its event in no room, leaves the rooms and the events as they were.     *)
C36_AllOrNothing ==
    [][(MoveEventCalled /\ lastCall'.exc # "") =>
            /\ rooms' = rooms
            /\ events' = events]_vars

----------------------------------------------------------------------------
(* Properties of the opening touch: player.js 198-216, 297-300, 556.       *)

(* Task t runs the call of start, with its opening touch. *)
OpeningTask(t) ==
    /\ tasks[t].stack # <<>>
    /\ tasks[t].stack[Len(tasks[t].stack)].kind = "start"

(* C37: the opening touch that start issues on the avatar neither sets nor *)
(* releases busy, which is set by an accepted move only and is true only   *)
(* while a move is in flight; while the opening touch is suspended in a    *)
(* DELAY with the dialogue box empty a move call is accepted, moves the    *)
(* avatar by the move rule and touches the event it finds in a call of its *)
(* own, beside the opening touch, which stays suspended.                   *)
C37_OpeningTouch ==
    [][/\ \A t \in Slots : (OpeningTask(t) /\ tasks[t].st = "run" /\ Run(t)) => busy' = busy
       /\ (busy' /\ ~busy) => (lastCall'.op = "move" /\ lastCall'.accepted)
       /\ busy' => \E u \in Slots : /\ tasks'[u].stack # <<>>
                                    /\ tasks'[u].stack[Len(tasks'[u].stack)].kind = "move"
       /\ ((\E t \in Slots : OpeningTask(t) /\ tasks[t].st = "delay")
             /\ ready /\ dialoguePlayer.pages = <<>> /\ ~busy /\ MoveCalled) =>
               LET d == Called
                   p == events[Avatar].position
                   tx == p[1] + d[1]
                   ty == p[2] + d[2]
                   free == InGrid(tx, ty) /\ ~SolidCell(roomFromEvent(World, Avatar), tx, ty)
               IN /\ lastCall'.accepted
                  /\ events'[Avatar].position = IF free THEN <<tx, ty>> ELSE p
                  /\ \A t \in Slots : OpeningTask(t) => tasks'[t] = tasks[t]
                  /\ lastCall'.event # NoRef =>
                        /\ busy'
                        /\ \E u \in Slots :
                              /\ tasks[u] = Idle
                              /\ tasks'[u].stack[Len(tasks'[u].stack)].kind = "move"
                              /\ Head(tasks'[u].stack).ev = lastCall'.event
                  /\ lastCall'.event = NoRef => ~busy']_vars

(* The opening touch is asleep in its DELAY; the avatar has stepped to     *)
(* (1,0) and the touch of the event there is in flight, with busy set.     *)
C37_Witness ==
    /\ busy /\ ready
    /\ events[Avatar].position = <<1, 0>>
    /\ \E t \in Slots : OpeningTask(t) /\ tasks[t].st = "delay"
    /\ \E u \in Slots : /\ tasks[u].stack # <<>>
                        /\ tasks[u].stack[Len(tasks[u].stack)].kind = "move"
                        /\ Head(tasks[u].stack).ev = Ref(2)

----------------------------------------------------------------------------
(* Properties of the restart an ending triggers: player.js 192-222,        *)
(* 461-483.                                                                *)

(* The set-avatar tiles of event e. *)
SetAvatarTiles(e) ==
    {events[e].fields[i].data : i \in {j \in DOMAIN events[e].fields :
        events[e].fields[j].key = "set-avatar" /\ events[e].fields[j].type = "tile"}}

----------------------------------------------------------------------------
(* Properties of a move that touches no event: player.js 297-328.          *)

(* C39: an accepted move that touches no event changes the avatar's        *)
(* position by the move rule and nothing else: every room's collection,    *)
(* every other event, every field, the dialogue box, ready and error are   *)
(* as they were, no call is left in flight and busy is false again.        *)
C39_MoveFrame ==
    [][(~Ignored /\ Avatar # NoRef /\ MoveCalled /\ lastCall'.event = NoRef) =>
            LET d == Called
                p == events[Avatar].position
                tx == p[1] + d[1]
                ty == p[2] + d[2]
                free == InGrid(tx, ty) /\ ~SolidCell(roomFromEvent(World, Avatar), tx, ty)
            IN /\ rooms' = rooms
               /\ DOMAIN events' = DOMAIN events
               /\ \A e \in DOMAIN events :
                     events'[e] = IF e = Avatar /\ free
                                  THEN [events[e] EXCEPT !.position = <<tx, ty>>]
                                  ELSE events[e]
               /\ FirstAt(tx, ty) = NoRef
               /\ ~busy'
               /\ UNCHANGED <<stateBackup, avatarId, ready, error, dialoguePlayer, tasks>>]_vars

(* The avatar has stepped to (1,0), where the one-time event is gone, and  *)
(* has touched nothing; an event moved by its script is above the avatar   *)
(* in the room's collection.                                               *)
C39_Witness ==
    /\ lastCall.op = "move" /\ lastCall.accepted /\ lastCall.dx = 1
    /\ lastCall.event = NoRef
    /\ ~busy
    /\ Avatar # NoRef /\ events[Avatar].position = <<1, 0>>
    /\ rooms[0].events[Len(rooms[0].events)] # Avatar

====
